---- MODULE Spec2Model ----
(***************************************************************************)
(* Model of the enrichment core of playgenerate:                           *)
(*   src/enrichment/espn_client.py   ESPNClient  (rate gate, URL cache)    *)
(*   src/enrichment/game_mapper.py   GameMapper  (id mapping, JSON store)  *)
(*   src/enrichment/play_matcher.py  PlayMatcher (per-game caches, score)  *)
(*                                                                         *)
(* Time is a discrete clock.  One tick is half of the configured minimum   *)
(* interval.  Time passes while a caller sleeps in the rate gate, while a  *)
(* request is in flight and between calls; the statements between          *)
(* recording the request time (espn_client.py:70) and calling              *)
(* requests.get (espn_client.py:90) are not blocking and take no ticks.    *)
(*                                                                         *)
(* Python's None is the empty tuple, a present value x is <<x>>.           *)
(* A JSON object is a function from key strings; {} is EmptyObj.           *)
(***************************************************************************)
EXTENDS Integers, Sequences, FiniteSets, TLC

VARIABLES
    now,                \* the clock read by time.time()
    cache_enabled,      \* ESPNClient.cache_enabled
    cache,              \* ESPNClient._cache: url -> response JSON
    last_request_time,  \* ESPNClient._last_request_time
    issued,             \* log of outbound requests: url, issue time, outcome
    cleared,            \* Len(issued) at the last ESPNClient.clear_cache
    mappings,           \* GameMapper._mappings: source game id -> GameMapping
    cache_file,         \* whether GameMapper.cache_file is set
    store,              \* the cache file of the mapper
    espn_plays_cache,   \* PlayMatcher._espn_plays_cache: ESPN game id -> plays
    game_info_cache,    \* PlayMatcher._game_info_cache: ESPN game id -> GameInfo
    returned,           \* log: source game id -> the first mapping returned for it
    threads,            \* where each concurrent caller is in _get
    batch,              \* match_plays_batch: the plays left, the results, the outcome
    call,               \* the last completed call: operation and arguments
    result              \* what the last completed call returned

vars == <<now, cache_enabled, cache, last_request_time, issued, cleared,
          mappings, cache_file, store, espn_plays_cache, game_info_cache,
          returned, threads, batch, call, result>>

----------------------------------------------------------------------------
(* Bounds *)

MaxTime == 6
MaxRequests == 2
MaxLatency == 1

----------------------------------------------------------------------------
(* Values *)

None == <<>>
Some(x) == <<x>>
IsNone(o) == Len(o) = 0
Val(o) == o[1]

EmptyObj == <<>>
Falsy(obj) == DOMAIN obj = {}

Min(a, b) == IF a < b THEN a ELSE b
Abs(a) == IF a < 0 THEN 0 - a ELSE a

(* dict.get(key, default) *)
JGet(obj, key, default) == IF key \in DOMAIN obj THEN obj[key] ELSE default

(* d[key] = value on a dict *)
Put(d, key, value) == (key :> value) @@ d

RECURSIVE DigitsToInt(_)
(* int() of a string of decimal digits, given as a tuple of digits *)
DigitsToInt(ds) ==
    IF Len(ds) = 0 THEN 0
    ELSE 10 * DigitsToInt(SubSeq(ds, 1, Len(ds) - 1)) + ds[Len(ds)]

----------------------------------------------------------------------------
(* ESPNClient, src/enrichment/espn_client.py *)

(* rate_limit_seconds of ESPNClient.__init__, in clock ticks *)
rate_limit_seconds == 2

ScoreboardUrl(date) == <<"scoreboard", date>>
SummaryUrl(espn_game_id) == <<"summary", espn_game_id>>

(* The client's fields and the clock, as one value handed from call to call *)
ClientState == [now |-> now, cache_enabled |-> cache_enabled, cache |-> cache,
                last_request_time |-> last_request_time, issued |-> issued]

(* _rate_limit, lines 67-69: how long the caller sleeps *)
SleepNone(t, last) == 0
SleepFor(t, last) ==
    IF t - last < rate_limit_seconds THEN rate_limit_seconds - (t - last) ELSE 0

(* _rate_limit, line 70: the time after the sleep is recorded *)
Record(cs, t) == [cs EXCEPT !.now = t, !.last_request_time = t]

(* _rate_limit: sleep, then record the time of the request *)
RateLimit(cs) == Record(cs, cs.now + SleepFor(cs.now, cs.last_request_time))

(* _get, line 83: the memoized response is used *)
CacheHitNever(cs, url) == FALSE
CacheHit(cs, url) == cs.cache_enabled /\ url \in DOMAIN cs.cache

(* _get, lines 94-96: memoize a successful response *)
MemoizeAlways(cs, url, resp) ==
    IF cs.cache_enabled
    THEN [cs EXCEPT !.cache = Put(@, url, IF IsNone(resp) THEN EmptyObj ELSE Val(resp))]
    ELSE cs
Memoize(cs, url, resp) ==
    IF cs.cache_enabled /\ ~IsNone(resp)
    THEN [cs EXCEPT !.cache = Put(@, url, Val(resp))]
    ELSE cs

(* _get, line 90: the request goes out when the gate has let the caller    *)
(* through, and the caller waits lat ticks for the answer                  *)
Send(gated, url, resp, lat) ==
    [gated EXCEPT !.issued = Append(@, [url |-> url, time |-> gated.now,
                                        ok |-> ~IsNone(resp)]),
                  !.now = @ + lat]

(* _get: resp is what the transport answers if asked (None: the request   *)
(* raises RequestException), lat the ticks the request is in flight.       *)
(* Returns the client state afterwards and the value returned.             *)
Get(cs, url, resp, lat) ==
    IF CacheHit(cs, url)
    THEN [cs |-> cs, data |-> Some(cs.cache[url])]
    ELSE [cs |-> Memoize(Send(RateLimit(cs), url, resp, lat), url, resp),
          data |-> resp]

MinOf(S) == CHOOSE i \in S : \A j \in S : i <= j

(* next((c for c in competitors if ...), {}) over the positions that match *)
FirstAt(competitors, hits) ==
    IF hits = {} THEN EmptyObj ELSE competitors[MinOf(hits)]

(* First competitor with the given homeAway, else {} *)
Competitor(competitors, side) ==
    FirstAt(competitors, {i \in DOMAIN competitors :
                            JGet(competitors[i], "homeAway", "") = side})

TeamOf(c) == JGet(c, "team", EmptyObj)

StatusName(obj) ==
    JGet(JGet(JGet(obj, "status", EmptyObj), "type", EmptyObj), "name", "")

(* GameInfo(...), lines 130-141 and 241-252 *)
GameInfoOf(espn_id, date, home, away, venue, status) ==
    [espn_id |-> espn_id,
     date |-> date,
     home_team |-> JGet(TeamOf(home), "displayName", ""),
     home_team_abbrev |-> JGet(TeamOf(home), "abbreviation", ""),
     away_team |-> JGet(TeamOf(away), "displayName", ""),
     away_team_abbrev |-> JGet(TeamOf(away), "abbreviation", ""),
     stadium |-> JGet(venue, "fullName", ""),
     home_score |-> DigitsToInt(JGet(home, "score", <<0>>)),
     away_score |-> DigitsToInt(JGet(away, "score", <<0>>)),
     status |-> status]

(* get_scoreboard, lines 123-141, given competitions[0] *)
EventGame(event, competitions, competitors) ==
    GameInfoOf(JGet(event, "id", ""), JGet(event, "date", ""),
               Competitor(competitors, "home"), Competitor(competitors, "away"),
               JGet(competitions, "venue", EmptyObj), StatusName(event))

EventCompetition(event, competitions) ==
    EventGame(event, competitions, JGet(competitions, "competitors", <<>>))

(* get_scoreboard, lines 120-141: one event to a GameInfo *)
ParseEvent(event) ==
    EventCompetition(event, JGet(event, "competitions", <<EmptyObj>>)[1])

(* JSON null where an object is expected: Python's None, which has no .get *)
Null == [null |-> TRUE]
IsNull(obj) == "null" \in DOMAIN obj

(* get_scoreboard, lines 122-141: the exception the parse of one event     *)
(* raises, "" when it raises none.  [][0] raises IndexError; .get on None  *)
(* (the event itself, or its venue) raises AttributeError.                 *)
EventError(event) ==
    IF IsNull(event) THEN "AttributeError"
    ELSE IF Len(JGet(event, "competitions", <<EmptyObj>>)) = 0 THEN "IndexError"
    ELSE IF IsNull(JGet(JGet(event, "competitions", <<EmptyObj>>)[1], "venue", EmptyObj))
    THEN "AttributeError"
    ELSE ""

(* get_scoreboard, line 143: the exceptions the loop catches *)
Caught == {"KeyError", "IndexError", "ValueError"}

RECURSIVE ParseEvents(_)
(* get_scoreboard, lines 119-145: the loop over the events; an event whose *)
(* parse raises a caught exception is skipped                              *)
ParseEvents(events) ==
    IF Len(events) = 0 THEN <<>>
    ELSE IF EventError(Head(events)) # "" THEN ParseEvents(Tail(events))
    ELSE <<ParseEvent(Head(events))>> \o ParseEvents(Tail(events))

(* get_scoreboard, lines 116-147: the exception that leaves the loop, ""   *)
(* when none does: that of the first event whose exception is not caught   *)
ScoreboardError(data) ==
    IF IsNone(data) \/ Falsy(Val(data)) \/ "events" \notin DOMAIN Val(data)
    THEN ""
    ELSE IF \E i \in DOMAIN Val(data).events :
                EventError(Val(data).events[i]) \notin Caught \cup {""}
    THEN EventError(Val(data).events[
             MinOf({i \in DOMAIN Val(data).events :
                      EventError(Val(data).events[i]) \notin Caught \cup {""}})])
    ELSE ""

(* get_scoreboard, lines 116-147, from the value _get returned *)
ScoreboardGames(data) ==
    IF IsNone(data) \/ Falsy(Val(data)) \/ "events" \notin DOMAIN Val(data)
    THEN <<>>
    ELSE ParseEvents(Val(data).events)

(* get_scoreboard: the client afterwards, and the list returned or the     *)
(* exception raised (games is then not returned)                           *)
ScoreboardFrom(got) ==
    [cs |-> got.cs, games |-> ScoreboardGames(got.data),
     raised |-> ScoreboardError(got.data)]

(* get_scoreboard *)
GetScoreboard(cs, date, resp, lat) ==
    ScoreboardFrom(Get(cs, ScoreboardUrl(date), resp, lat))

(* get_game_summary *)
GetGameSummary(cs, espn_game_id, resp, lat) ==
    Get(cs, SummaryUrl(espn_game_id), resp, lat)

PlayInfoOf(play, start) ==
    [play_id |-> JGet(play, "id", ""),
     quarter |-> JGet(JGet(play, "period", EmptyObj), "number", 0),
     clock |-> JGet(JGet(play, "clock", EmptyObj), "displayValue", ""),
     down |-> JGet(start, "down", 0),
     distance |-> JGet(start, "distance", 0),
     yard_line |-> JGet(start, "yardLine", 0),
     yard_line_side |-> JGet(JGet(start, "team", EmptyObj), "abbreviation", ""),
     play_text |-> JGet(play, "text", ""),
     play_type |-> JGet(JGet(play, "type", EmptyObj), "text", ""),
     scoring_play |-> JGet(play, "scoringPlay", FALSE),
     home_score |-> JGet(play, "homeScore", 0),
     away_score |-> JGet(play, "awayScore", 0)]

(* get_plays, lines 190-207: one play to a PlayInfo *)
ParsePlay(play) == PlayInfoOf(play, JGet(play, "start", EmptyObj))

RECURSIVE ParsePlays(_)
(* get_plays, lines 188-211: the loop over the plays of one drive *)
ParsePlays(drive_plays) ==
    IF Len(drive_plays) = 0 THEN <<>>
    ELSE <<ParsePlay(Head(drive_plays))>> \o ParsePlays(Tail(drive_plays))

RECURSIVE FlattenDrives(_)
(* get_plays, lines 185-211: the plays of the drives, drive by drive *)
FlattenDrives(drives) ==
    IF Len(drives) = 0 THEN <<>>
    ELSE ParsePlays(JGet(Head(drives), "plays", <<>>)) \o FlattenDrives(Tail(drives))

(* get_plays, lines 182-183: drives.append(current) when current is truthy *)
WithCurrent(previous, current) ==
    IF Falsy(current) THEN previous ELSE Append(previous, current)

(* get_plays, lines 178-183: the list `drives` the loop runs over.  It is  *)
(* the summary's own drives.previous list when that key exists, and the    *)
(* in-progress drive is appended to it in place.                           *)
DrivesOf(summary) ==
    WithCurrent(JGet(JGet(summary, "drives", EmptyObj), "previous", <<>>),
                JGet(JGet(summary, "drives", EmptyObj), "current", EmptyObj))

(* The summary object after get_plays ran on it (drives.append(current)) *)
SummaryAfterGetPlays(summary) ==
    IF "drives" \in DOMAIN summary /\ "previous" \in DOMAIN summary.drives
    THEN [summary EXCEPT !.drives.previous = DrivesOf(summary)]
    ELSE summary

(* get_plays, lines 174-213, from what get_game_summary returned: the      *)
(* object _get returns is the memoized one when caching is enabled, so     *)
(* the append shows in the cache.                                          *)
PlaysFrom(got, url) ==
    IF IsNone(got.data) \/ Falsy(Val(got.data))
    THEN [cs |-> got.cs, plays |-> <<>>]
    ELSE [cs |-> IF got.cs.cache_enabled /\ url \in DOMAIN got.cs.cache
                 THEN [got.cs EXCEPT
                         !.cache[url] = SummaryAfterGetPlays(Val(got.data))]
                 ELSE got.cs,
          plays |-> FlattenDrives(DrivesOf(Val(got.data)))]

(* get_plays *)
GetPlays(cs, espn_game_id, resp, lat) ==
    PlaysFrom(GetGameSummary(cs, espn_game_id, resp, lat), SummaryUrl(espn_game_id))

(* get_game_info, lines 231-252, given competitions[0] *)
SummaryGame(espn_game_id, summary, competitions, competitors) ==
    GameInfoOf(espn_game_id, JGet(competitions, "date", ""),
               Competitor(competitors, "home"), Competitor(competitors, "away"),
               JGet(JGet(summary, "gameInfo", EmptyObj), "venue", EmptyObj),
               StatusName(competitions))

SummaryCompetition(espn_game_id, summary, competitions) ==
    SummaryGame(espn_game_id, summary, competitions,
                JGet(competitions, "competitors", <<>>))

(* get_game_info, lines 227-255, from what get_game_summary returned *)
InfoFrom(got, espn_game_id) ==
    IF IsNone(got.data) \/ Falsy(Val(got.data))
    THEN [cs |-> got.cs, info |-> None]
    ELSE [cs |-> got.cs,
          info |-> Some(SummaryCompetition(espn_game_id, Val(got.data),
                     JGet(JGet(Val(got.data), "header", EmptyObj),
                          "competitions", <<EmptyObj>>)[1]))]

(* get_game_info *)
GetGameInfo(cs, espn_game_id, resp, lat) ==
    InfoFrom(GetGameSummary(cs, espn_game_id, resp, lat), espn_game_id)

(* clear_cache *)
ClearCacheOp(cs) == [cs EXCEPT !.cache = <<>>]

----------------------------------------------------------------------------
(* GameMapper, src/enrichment/game_mapper.py *)

(* Length of the date prefix of a Big Data Bowl game id *)
DateLen == 8

(* TEAM_ALIASES, restricted to the names the model uses *)
TEAM_ALIASES ==
    [n \in {"Kansas City Chiefs", "Detroit Lions", "Washington Commanders", "WSH"} |->
        CASE n = "Kansas City Chiefs" -> "KC"
          [] n = "Detroit Lions" -> "DET"
          [] n = "Washington Commanders" -> "WAS"
          [] n = "WSH" -> "WAS"]

(* str.upper() on the names the model uses *)
Upper(name) ==
    CASE name = "kc" -> "KC"
      [] name = "wsh" -> "WSH"
      [] name = "Kansas City Chiefs" -> "KANSAS CITY CHIEFS"
      [] name = "Detroit Lions" -> "DETROIT LIONS"
      [] name = "Washington Commanders" -> "WASHINGTON COMMANDERS"
      [] OTHER -> name

(* s[:3] on the upper-case names the model uses *)
Prefix3(name) ==
    CASE name = "KANSAS CITY CHIEFS" -> "KAN"
      [] name = "DETROIT LIONS" -> "DET"
      [] name = "WASHINGTON COMMANDERS" -> "WAS"
      [] OTHER -> name

(* normalize_team *)
normalize_team(team_name) ==
    IF Upper(team_name) \in DOMAIN TEAM_ALIASES THEN TEAM_ALIASES[Upper(team_name)]
    ELSE IF team_name \in DOMAIN TEAM_ALIASES THEN TEAM_ALIASES[team_name]
    ELSE Prefix3(Upper(team_name))

(* Python's int() of a string of decimal digits with an optional leading  *)
(* minus sign, which the tuples of the model write as Minus                *)
Minus == 0 - 1
ParseInt(chars) ==
    IF Len(chars) > 1 /\ chars[1] = Minus THEN 0 - DigitsToInt(Tail(chars))
    ELSE DigitsToInt(chars)

(* Python's seq[i], as a position from 1: a negative i counts from the end *)
(* (below -len it raises IndexError, which no id of the model reaches)     *)
PyIndex(seq, i) == IF i >= 0 THEN i + 1 ELSE Len(seq) + i + 1

(* parse_bdb_game_id: the id is a tuple of characters *)
parse_bdb_game_id(bdb_game_id) ==
    [date |-> SubSeq(bdb_game_id, 1, Min(DateLen, Len(bdb_game_id))),
     game_num |-> IF Len(bdb_game_id) > DateLen
                  THEN ParseInt(SubSeq(bdb_game_id, DateLen + 1, Len(bdb_game_id)))
                  ELSE 0]

(* The persisted store: the cache file, when it exists, holds a JSON object *)
(* (kind "object", its entries listed in ascending id order), a JSON list  *)
(* ("list"), text that is no JSON ("garbage"), or cannot be opened         *)
(* ("unreadable")                                                          *)
NoFile == [exists |-> FALSE, valid |-> FALSE, data |-> <<>>, kind |-> "none"]
FileWith(data) == [exists |-> TRUE, valid |-> TRUE, data |-> data, kind |-> "object"]
Truncated == [exists |-> TRUE, valid |-> FALSE, data |-> <<>>, kind |-> "garbage"]
ListFile == [exists |-> TRUE, valid |-> FALSE, data |-> <<>>, kind |-> "list"]
Unreadable == [exists |-> TRUE, valid |-> FALSE, data |-> <<>>, kind |-> "unreadable"]

(* The fields of the GameMapping dataclass, lines 17-27 *)
GameMappingFields ==
    {"bdb_game_id", "espn_game_id", "date", "home_team", "home_team_abbrev",
     "away_team", "away_team_abbrev", "stadium"}

(* _load_cache, line 107: building the GameMapping raises TypeError on a   *)
(* missing or an unexpected keyword                                        *)
BadEntry(d) == DOMAIN d # GameMappingFields

(* _load_cache, lines 106-107: the ids whose entries are loaded before the *)
(* loop ends or an entry raises                                            *)
LoadedIds(data) ==
    {id \in DOMAIN data :
        \A other \in DOMAIN data :
            BadEntry(data[other]) => DigitsToInt(id) < DigitsToInt(other)}

(* _load_cache, lines 103-110: the exception raised inside the try, ""     *)
(* when there is none                                                      *)
LoadError(file) ==
    IF file.kind = "unreadable" THEN "PermissionError"
    ELSE IF file.kind = "garbage" THEN "JSONDecodeError"
    ELSE IF file.kind = "list" THEN "AttributeError"
    ELSE IF \E id \in DOMAIN file.data : BadEntry(file.data[id]) THEN "TypeError"
    ELSE ""

(* _load_cache, line 109: the exceptions caught *)
LoadCaught == {"JSONDecodeError", "FileNotFoundError", "TypeError"}

(* __init__, lines 98-99: the exception that leaves the constructor *)
InitError(configured, file) ==
    IF configured /\ file.exists /\ LoadError(file) \notin LoadCaught
    THEN LoadError(file) ELSE ""

(* _load_cache, line 107: a GameMapping from the keyword fields of an entry *)
MappingFromDict(d) ==
    [bdb_game_id |-> d.bdb_game_id, espn_game_id |-> d.espn_game_id, date |-> d.date,
     home_team |-> d.home_team, home_team_abbrev |-> d.home_team_abbrev,
     away_team |-> d.away_team, away_team_abbrev |-> d.away_team_abbrev,
     stadium |-> d.stadium]

(* _save_cache, lines 118-130: the JSON object written *)
SaveData(m) ==
    [bdb_id \in DOMAIN m |->
        [bdb_game_id |-> m[bdb_id].bdb_game_id,
         espn_game_id |-> m[bdb_id].espn_game_id,
         date |-> m[bdb_id].date,
         home_team |-> m[bdb_id].home_team,
         home_team_abbrev |-> m[bdb_id].home_team_abbrev,
         away_team |-> m[bdb_id].away_team,
         away_team_abbrev |-> m[bdb_id].away_team_abbrev,
         stadium |-> m[bdb_id].stadium]]

(* _load_cache: the mappings held afterwards *)
LoadCache(file) ==
    IF file.exists /\ file.valid
    THEN [bdb_id \in LoadedIds(file.data) |-> MappingFromDict(file.data[bdb_id])]
    ELSE <<>>

(* _save_cache.  io is what the file system does with the write: "ok",     *)
(* "refused" (makedirs or open raises OSError, the file stays as it was)   *)
(* or "cut" (the write raises after open truncated the file).              *)
SaveCache(file, m, configured, io) ==
    IF ~configured THEN file
    ELSE IF io = "ok" THEN FileWith(SaveData(m))
    ELSE IF io = "cut" THEN Truncated
    ELSE file

(* get_mapping, lines 214-215 *)
SameTeamsInOrder(espn_home, espn_away, home_abbrev, away_abbrev) ==
    espn_home = home_abbrev /\ espn_away = away_abbrev
SameTeams(espn_home, espn_away, home_abbrev, away_abbrev) ==
    \/ espn_home = home_abbrev /\ espn_away = away_abbrev
    \/ espn_home = away_abbrev /\ espn_away = home_abbrev

(* get_mapping, lines 210-217: the positions of the games the hints match *)
HintHits(games, home_abbrev, away_abbrev) ==
    {i \in DOMAIN games :
        SameTeams(normalize_team(games[i].home_team_abbrev),
                  normalize_team(games[i].away_team_abbrev),
                  home_abbrev, away_abbrev)}

(* The loop breaks at the first hit; 0 stands for matched_game = None *)
FirstOrNone(hits) == IF hits = {} THEN 0 ELSE MinOf(hits)

(* get_mapping, lines 206-217: index of the first game matching the hints, *)
(* 0 when there is none or no hints were given                             *)
HintMatch(games, teams) ==
    IF IsNone(teams) THEN 0
    ELSE FirstOrNone(HintHits(games, normalize_team(Val(teams)[1]),
                              normalize_team(Val(teams)[2])))

(* get_mapping, lines 219-225, after the hints selected game h (0: none) *)
SelectByIndexOnly(h, games, game_num) ==
    IF h > 0 THEN h
    ELSE IF game_num < Len(games) THEN PyIndex(games, game_num)
    ELSE 0
SelectAfterHints(h, games, game_num) ==
    IF h > 0 THEN h
    ELSE IF game_num < Len(games) THEN PyIndex(games, game_num)
    ELSE IF Len(games) = 1 THEN 1
    ELSE 0

(* get_mapping, lines 204-225: index of the matched game, 0 when none *)
SelectGame(games, teams, game_num) ==
    SelectAfterHints(HintMatch(games, teams), games, game_num)

(* get_mapping, lines 232-241 *)
NewMapping(bdb_game_id, date, matched_game) ==
    [bdb_game_id |-> bdb_game_id, espn_game_id |-> matched_game.espn_id, date |-> date,
     home_team |-> matched_game.home_team,
     home_team_abbrev |-> matched_game.home_team_abbrev,
     away_team |-> matched_game.away_team,
     away_team_abbrev |-> matched_game.away_team_abbrev,
     stadium |-> matched_game.stadium]

(* The mapper's fields and the cache file *)
MapperState == [mappings |-> mappings, cache_file |-> cache_file, store |-> store]

(* get_mapping, line 190 *)
MappedNever(ms, bdb_game_id) == FALSE
Mapped(ms, bdb_game_id) == bdb_game_id \in DOMAIN ms.mappings

(* get_mapping, lines 199-201 and 227-229: nothing is found *)
NotFoundForgets(ms) ==
    [ms EXCEPT !.mappings = <<>>, !.store = SaveCache(@, <<>>, ms.cache_file, "ok")]
NotFound(ms) == ms

(* get_mapping, line 244: _save_cache() writes the mappings held *)
Saved(ms, io) == [ms EXCEPT !.store = SaveCache(@, ms.mappings, ms.cache_file, io)]

(* get_mapping, lines 243-244 *)
StoreNewUnsaved(ms, mapping, io) ==
    [ms EXCEPT !.mappings = Put(@, mapping.bdb_game_id, mapping)]
StoreNewAlone(ms, mapping, io) ==
    Saved([ms EXCEPT !.mappings = mapping.bdb_game_id :> mapping], io)
StoreNew(ms, mapping, io) ==
    Saved([ms EXCEPT !.mappings = Put(@, mapping.bdb_game_id, mapping)], io)

(* get_mapping, lines 231-246: the matched game becomes a mapping *)
Created(ms, cs, mapping, io) ==
    [ms |-> StoreNew(ms, mapping, io), cs |-> cs, mapping |-> Some(mapping)]

(* get_mapping, lines 199-246, given the index k of the matched game *)
MappingOfGame(ms, cs, bdb_game_id, date, games, k, io) ==
    IF Len(games) = 0 \/ k = 0
    THEN [ms |-> NotFound(ms), cs |-> cs, mapping |-> None]
    ELSE Created(ms, cs, NewMapping(bdb_game_id, date, games[k]), io)

(* get_mapping, lines 199-246, given what get_scoreboard returned *)
MappingOfGames(ms, sb, bdb_game_id, teams, parsed, io) ==
    MappingOfGame(ms, sb.cs, bdb_game_id, parsed.date, sb.games,
                  SelectGame(sb.games, teams, parsed.game_num), io)

(* get_mapping, lines 193-246: the id is not in the mappings *)
MappingOfDate(ms, cs, bdb_game_id, teams, parsed, resp, lat, io) ==
    MappingOfGames(ms, GetScoreboard(cs, parsed.date, resp, lat), bdb_game_id,
                   teams, parsed, io)

(* get_mapping.  resp and lat are the transport's answer to the schedule   *)
(* request if one is made, io the outcome of the cache-file write.         *)
GetMapping(ms, cs, bdb_game_id, teams, resp, lat, io) ==
    IF Mapped(ms, bdb_game_id)
    THEN [ms |-> ms, cs |-> cs, mapping |-> Some(ms.mappings[bdb_game_id])]
    ELSE MappingOfDate(ms, cs, bdb_game_id, teams, parse_bdb_game_id(bdb_game_id),
                       resp, lat, io)

----------------------------------------------------------------------------
(* PlayMatcher, src/enrichment/play_matcher.py *)

(* A score is a binary64 float.  <<t, u>> is the float u units in the last *)
(* place away from the float nearest to t/10; every score the code can     *)
(* compute is of this form with u in -1..1.                                *)
Float(t) == <<t, 0>>
FloatLess(a, b) == a[1] < b[1] \/ (a[1] = b[1] /\ a[2] < b[2])

(* a + b in binary64, round to nearest even, on the sums the scorer forms *)
FloatAdd(a, b) ==
    CASE a = <<0, 0>> -> b
      [] b = <<0, 0>> -> a
      [] a = <<1, 0>> /\ b = <<2, 0>> -> <<3, 1>>
      [] a = <<2, 0>> /\ b = <<1, 0>> -> <<3, 1>>
      [] a = <<3, 1>> /\ b = <<1, 0>> -> <<4, 0>>
      [] a = <<6, 0>> /\ b = <<3, 0>> -> <<9, 0 - 1>>
      [] a = <<7, 0>> /\ b = <<1, 0>> -> <<8, 0 - 1>>
      [] a = <<9, 0 - 1>> /\ b = <<1, 0>> -> <<10, 0 - 1>>
      [] OTHER -> <<a[1] + b[1], 0>>

FloatMin(a, b) == IF FloatLess(b, a) THEN b ELSE a

(* absolute_to_espn_yardline, line 110 *)
YardlineFromHundred(absolute_yardline) == 100 - absolute_yardline
absolute_to_espn_yardline(absolute_yardline) == 110 - absolute_yardline

(* calculate_match_score, lines 154-168: the yardline part of the score *)
YardlineScoreOpen(score, yardline_diff) ==
    IF yardline_diff = 0 THEN FloatAdd(score, Float(6))
    ELSE IF yardline_diff < 2 THEN FloatAdd(score, Float(5))
    ELSE IF yardline_diff < 5 THEN FloatAdd(score, Float(3))
    ELSE IF yardline_diff < 10 THEN FloatAdd(score, Float(1))
    ELSE score
YardlineScore(score, yardline_diff) ==
    IF yardline_diff = 0 THEN FloatAdd(score, Float(6))
    ELSE IF yardline_diff <= 2 THEN FloatAdd(score, Float(5))
    ELSE IF yardline_diff <= 5 THEN FloatAdd(score, Float(3))
    ELSE IF yardline_diff <= 10 THEN FloatAdd(score, Float(1))
    ELSE score

(* calculate_match_score, lines 170-176: the sequence part *)
SequenceScore(score, sequence_distance) ==
    IF sequence_distance = 0 THEN FloatAdd(score, Float(3))
    ELSE IF sequence_distance <= 2 THEN FloatAdd(score, Float(2))
    ELSE IF sequence_distance <= 5 THEN FloatAdd(score, Float(1))
    ELSE score

(* calculate_match_score, lines 178-180: the down part *)
DownScore(score, espn_down) ==
    IF espn_down > 0 THEN FloatAdd(score, Float(1)) ELSE score

(* calculate_match_score *)
calculate_match_score(bdb_yardline, espn_yardline, bdb_direction, espn_down, sequence_distance) ==
    FloatMin(DownScore(SequenceScore(YardlineScore(Float(0),
                 Abs(absolute_to_espn_yardline(bdb_yardline) - espn_yardline)),
                 sequence_distance), espn_down),
             Float(10))

(* match_play, line 236: the play is skipped *)
ExcludedNever(espn_play) == FALSE
Excluded(espn_play) == espn_play.yard_line = 0 /\ espn_play.down = 0

(* match_play, line 240; idx counts from 0.  A hint of 0 is falsy. *)
SequenceDist(idx, play_sequence_hint) ==
    IF ~IsNone(play_sequence_hint) /\ Val(play_sequence_hint) # 0
    THEN Abs(idx - Val(play_sequence_hint))
    ELSE idx

(* match_play, lines 250-253: a strictly better score replaces the best *)
BetterOrEqual(before, score, n) ==
    IF ~FloatLess(score, before.best_score)
    THEN [best_score |-> score, best |-> n]
    ELSE before
Better(before, score, n) ==
    IF FloatLess(before.best_score, score)
    THEN [best_score |-> score, best |-> n]
    ELSE before

(* match_play, lines 234-253: one turn of the loop, at position n *)
Turn(before, espn_play, n, absolute_yardline, play_direction, play_sequence_hint) ==
    IF Excluded(espn_play) THEN before
    ELSE Better(before,
                calculate_match_score(absolute_yardline, espn_play.yard_line,
                    play_direction, espn_play.down,
                    SequenceDist(n - 1, play_sequence_hint)),
                n)

RECURSIVE BestMatch(_, _, _, _, _)
(* match_play, lines 230-253: the loop over espn_plays[1..n]; the result   *)
(* is best_score and the position of best_match (0: best_match is None)    *)
BestMatch(espn_plays, n, absolute_yardline, play_direction, play_sequence_hint) ==
    IF n = 0 THEN [best_score |-> Float(0), best |-> 0]
    ELSE Turn(BestMatch(espn_plays, n - 1, absolute_yardline, play_direction,
                        play_sequence_hint),
              espn_plays[n], n, absolute_yardline, play_direction,
              play_sequence_hint)

(* The matcher's fields *)
MatcherState == [espn_plays_cache |-> espn_plays_cache,
                 game_info_cache |-> game_info_cache]

(* _get_espn_plays, line 74 *)
PlaysKnownNever(ps, espn_game_id) == FALSE
PlaysKnown(ps, espn_game_id) == espn_game_id \in DOMAIN ps.espn_plays_cache

(* _get_espn_plays, line 75: whatever get_plays returned is kept *)
KeepPlaysIfAny(ps, got, espn_game_id) ==
    [ps |-> IF Len(got.plays) = 0 THEN ps
            ELSE [ps EXCEPT !.espn_plays_cache = Put(@, espn_game_id, got.plays)],
     cs |-> got.cs, plays |-> got.plays]
KeepPlays(ps, got, espn_game_id) ==
    [ps |-> [ps EXCEPT !.espn_plays_cache = Put(@, espn_game_id, got.plays)],
     cs |-> got.cs, plays |-> got.plays]

(* _get_espn_plays *)
GetEspnPlays(ps, cs, espn_game_id, resp, lat) ==
    IF PlaysKnown(ps, espn_game_id)
    THEN [ps |-> ps, cs |-> cs, plays |-> ps.espn_plays_cache[espn_game_id]]
    ELSE KeepPlays(ps, GetPlays(cs, espn_game_id, resp, lat), espn_game_id)

(* _get_game_info, lines 81-83: the info is kept when there is one *)
KeepInfo(ps, got, espn_game_id) ==
    [ps |-> IF IsNone(got.info) THEN ps
            ELSE [ps EXCEPT !.game_info_cache = Put(@, espn_game_id, Val(got.info))],
     cs |-> got.cs]

(* _get_game_info *)
GetGameInfoCached(ps, cs, espn_game_id, resp, lat) ==
    IF espn_game_id \in DOMAIN ps.game_info_cache
    THEN [ps |-> ps, cs |-> cs]
    ELSE KeepInfo(ps, GetGameInfo(cs, espn_game_id, resp, lat), espn_game_id)

(* match_play, lines 260-288 *)
EnrichedSwapped(p, best_match, game_mapping, best_score) ==
    [game_id |-> p.game_id, play_id |-> p.play_id,
     absolute_yardline |-> p.absolute_yardline, play_direction |-> p.play_direction,
     ball_land_x |-> p.ball_land_x, ball_land_y |-> p.ball_land_y,
     num_frames |-> p.num_frames,
     quarter |-> best_match.quarter, game_clock |-> best_match.clock,
     down |-> best_match.down, yards_to_go |-> best_match.distance,
     play_description |-> best_match.play_text, play_type |-> best_match.play_type,
     scoring_play |-> best_match.scoring_play,
     home_team |-> game_mapping.away_team, away_team |-> game_mapping.home_team,
     stadium |-> game_mapping.stadium,
     home_score |-> best_match.home_score, away_score |-> best_match.away_score,
     match_confidence |-> best_score]
Enriched(p, best_match, game_mapping, best_score) ==
    [game_id |-> p.game_id, play_id |-> p.play_id,
     absolute_yardline |-> p.absolute_yardline, play_direction |-> p.play_direction,
     ball_land_x |-> p.ball_land_x, ball_land_y |-> p.ball_land_y,
     num_frames |-> p.num_frames,
     quarter |-> best_match.quarter, game_clock |-> best_match.clock,
     down |-> best_match.down, yards_to_go |-> best_match.distance,
     play_description |-> best_match.play_text, play_type |-> best_match.play_type,
     scoring_play |-> best_match.scoring_play,
     home_team |-> game_mapping.home_team, away_team |-> game_mapping.away_team,
     stadium |-> game_mapping.stadium,
     home_score |-> best_match.home_score, away_score |-> best_match.away_score,
     match_confidence |-> best_score]

(* match_play, lines 255-288, given the best match bm *)
MatchResultAbove(p, game_mapping, espn_plays, bm) ==
    IF bm.best = 0 \/ ~FloatLess(Float(3), bm.best_score)
    THEN None
    ELSE Some(Enriched(p, espn_plays[bm.best], game_mapping, bm.best_score))
MatchResult(p, game_mapping, espn_plays, bm) ==
    IF bm.best = 0 \/ FloatLess(bm.best_score, Float(3))
    THEN None
    ELSE Some(Enriched(p, espn_plays[bm.best], game_mapping, bm.best_score))

(* match_play, lines 223-288, once the game info was asked for *)
MatchAfterInfo(gi, ms, p, game_mapping, espn_plays) ==
    [ps |-> gi.ps, ms |-> ms, cs |-> gi.cs,
     enriched |-> MatchResult(p, game_mapping, espn_plays,
                     BestMatch(espn_plays, Len(espn_plays), p.absolute_yardline,
                               p.play_direction, p.play_sequence_hint))]

(* match_play, lines 217-288, given the plays _get_espn_plays returned *)
MatchAfterPlays(ep, ms, p, game_mapping, net3) ==
    IF Len(ep.plays) = 0
    THEN [ps |-> ep.ps, ms |-> ms, cs |-> ep.cs, enriched |-> None]
    ELSE MatchAfterInfo(GetGameInfoCached(ep.ps, ep.cs, game_mapping.espn_game_id,
                                          net3.resp, net3.lat),
                        ms, p, game_mapping, ep.plays)

(* match_play, lines 211-288: the call once the mapper has answered with  *)
(* gm.  net2 and net3 are the transport's behaviours for the summary       *)
(* request of _get_espn_plays and of _get_game_info, if they are made.     *)
MatchCachingUnmapped(ps, gm, p, net2, net3) ==
    IF IsNone(gm.mapping)
    THEN [ps |-> [ps EXCEPT !.espn_plays_cache = Put(@, "", <<>>)],
          ms |-> gm.ms, cs |-> gm.cs, enriched |-> None]
    ELSE MatchAfterPlays(GetEspnPlays(ps, gm.cs, Val(gm.mapping).espn_game_id,
                                      net2.resp, net2.lat),
                         gm.ms, p, Val(gm.mapping), net3)
MatchAfterMapping(ps, gm, p, net2, net3) ==
    IF IsNone(gm.mapping)
    THEN [ps |-> ps, ms |-> gm.ms, cs |-> gm.cs, enriched |-> None]
    ELSE MatchAfterPlays(GetEspnPlays(ps, gm.cs, Val(gm.mapping).espn_game_id,
                                      net2.resp, net2.lat),
                         gm.ms, p, Val(gm.mapping), net3)

(* match_play.  p holds the arguments.  net gives, for each of the three   *)
(* requests the call can make (schedule, summary for the plays, summary    *)
(* for the game info), the transport's answer and its latency; io is the   *)
(* outcome of the cache-file write.                                        *)
MatchPlay(ps, ms, cs, p, net, io) ==
    MatchAfterMapping(ps, GetMapping(ms, cs, p.game_id, None, net[1].resp,
                                     net[1].lat, io), p, net[2], net[3])

----------------------------------------------------------------------------
(* The provider and the callers' inputs *)

DateA == <<2, 0, 2, 3, 0, 9, 0, 7>>
DateB == <<2, 0, 2, 3, 0, 9, 1, 0>>
DateC == <<2, 0, 2, 3, 0, 9, 1, 4>>
DateD == <<2, 0, 2, 3, 0, 9, 1, 7>>
DateE == <<2, 0, 2, 3, 0, 9, 2, 1>>
Dates == {DateA, DateB}

IdA0 == DateA \o <<0, 0>>
IdA1 == DateA \o <<0, 1>>
IdB5 == DateB \o <<0, 5>>
IdC0 == DateC \o <<0, 0>>
IdD0 == DateD \o <<0, 0>>
IdD1 == DateD \o <<0, 1>>
IdD3 == DateD \o <<0, 3>>
IdDMinus1 == DateD \o <<Minus, 1>>
SourceIds == {IdA0, IdA1, IdB5}

EspnIds == {"401", "402", "403"}

Side(homeAway, name, abbrev, score) ==
    [homeAway |-> homeAway, team |-> [displayName |-> name, abbreviation |-> abbrev],
     score |-> score]

Competition(id) ==
    CASE id = "401" ->
           [competitors |-> <<Side("home", "Kansas City Chiefs", "KC", <<2, 0>>),
                              Side("away", "Detroit Lions", "DET", <<2, 1>>)>>,
            venue |-> [fullName |-> "Arrowhead Stadium"]]
      [] id = "402" ->
           [competitors |-> <<Side("away", "Arizona Cardinals", "ARI", <<1, 6>>),
                              Side("home", "Washington Commanders", "WSH", <<2, 0>>)>>,
            venue |-> [fullName |-> "FedExField"]]
      [] id = "403" ->
           [competitors |-> <<Side("home", "Green Bay Packers", "GB", <<3, 8>>),
                              Side("away", "Chicago Bears", "CHI", <<2, 0>>)>>,
            venue |-> [fullName |-> "Lambeau Field"]]
      [] id = "404" ->
           [competitors |-> <<Side("home", "Buffalo Bills", "BUF", <<1, 4>>),
                              Side("away", "New York Jets", "NYJ", <<1, 0>>)>>,
            venue |-> [fullName |-> "Highmark Stadium"]]
      [] id = "405" ->
           [competitors |-> <<Side("home", "Kansas City Chiefs", "KC", <<2, 7>>),
                              Side("away", "Detroit Lions", "DET", <<2, 4>>)>>,
            venue |-> [fullName |-> "Arrowhead Stadium"]]
      [] id = "406" ->
           [competitors |-> <<Side("home", "Washington Commanders", "WSH", <<1, 7>>),
                              Side("away", "Detroit Lions", "DET", <<1, 3>>)>>,
            venue |-> [fullName |-> "FedExField"]]
      [] id = "407" ->
           [competitors |-> <<Side("home", "Detroit Lions", "DET", <<3, 1>>),
                              Side("away", "Washington Commanders", "WSH", <<3, 0>>)>>,
            venue |-> [fullName |-> "Ford Field"]]

(* One event of the scoreboard JSON *)
Event(id) ==
    [id |-> id, date |-> "2023-09", competitions |-> <<Competition(id)>>,
     status |-> [type |-> [name |-> "STATUS_FINAL"]]]

(* Events of unexpected shape: an empty competitions list, and a          *)
(* competition whose venue is null                                         *)
NoCompetition(id) == [Event(id) EXCEPT !.competitions = <<>>]
NoVenue(id) == [Event(id) EXCEPT !.competitions[1].venue = Null]

(* What the provider may answer to the schedule request of a date *)
ScoreboardBodies(date) ==
    IF date = DateA
    THEN {[events |-> <<Event("401"), Event("402")>>], [events |-> <<>>]}
    ELSE IF date = DateB
    THEN {[events |-> <<Event("403")>>], [events |-> <<Event("403"), Event("401")>>],
          EmptyObj}
    ELSE IF date = DateC
    THEN {[events |-> <<Event("404")>>]}
    ELSE IF date = DateD
    THEN {[events |-> <<Event("405")>>],
          [events |-> <<Event("405"), Event("406"), Event("407")>>]}
    ELSE {[events |-> <<Event("401"), NoCompetition("402"), Event("403")>>],
          [events |-> <<Event("401"), NoVenue("402"), Event("403")>>],
          [events |-> <<Null, Event("403")>>],
          [events |-> <<Event("403")>>],
          [error |-> "not found"]}

(* One play of the summary JSON *)
RawPlay(id, quarter, down, distance, yardLine, text) ==
    [id |-> id, period |-> [number |-> quarter], clock |-> [displayValue |-> "14:25"],
     start |-> [down |-> down, distance |-> distance, yardLine |-> yardLine,
                team |-> [abbreviation |-> "DET"]],
     text |-> text, type |-> [text |-> "Play"], scoringPlay |-> FALSE,
     homeScore |-> 0, awayScore |-> 0]

Drive1 == [plays |-> <<RawPlay("p0", 1, 0, 0, 0, "kickoff"),
                       RawPlay("p1", 1, 1, 10, 75, "rush"),
                       RawPlay("p2", 1, 2, 7, 72, "pass"),
                       RawPlay("p3", 1, 3, 3, 68, "pass incomplete")>>]
Drive2 == [plays |-> <<RawPlay("p4", 1, 4, 3, 68, "punt"),
                       RawPlay("p5", 1, 1, 10, 35, "rush right")>>]
Drive3 == [plays |-> <<RawPlay("p6", 2, 2, 4, 29, "pass")>>]
(* A drive with a timeout in it, and a kickoff followed by a timeout *)
Drive4 == [plays |-> <<RawPlay("q0", 3, 0, 0, 35, "kickoff return"),
                       RawPlay("q1", 3, 1, 10, 65, "rush left"),
                       RawPlay("q2", 3, 0, 0, 0, "timeout"),
                       RawPlay("q3", 3, 2, 8, 63, "pass short")>>]
Drive5 == [plays |-> <<RawPlay("k0", 4, 0, 0, 35, "kickoff out of bounds"),
                       RawPlay("k1", 4, 0, 0, 0, "end of game")>>]

SummaryWith(id, drives) ==
    [drives |-> drives,
     header |-> [competitions |-> <<[competitors |-> Competition(id).competitors,
                                      date |-> "2023-09",
                                      status |-> [type |-> [name |-> "STATUS_FINAL"]]]>>],
     gameInfo |-> [venue |-> Competition(id).venue]]

(* What the provider may answer to the summary request of a game: the     *)
(* finished game, or the game with a drive in progress                     *)
SummaryBodies(id) ==
    {SummaryWith(id, [previous |-> <<Drive1, Drive2>>])}
    \cup IF id = "401"
         THEN {SummaryWith(id, [previous |-> <<Drive1>>, current |-> Drive3])}
         ELSE IF id = "404"
         THEN {SummaryWith(id, [previous |-> <<Drive4>>]),
               SummaryWith(id, [previous |-> <<Drive5>>])}
         ELSE {}

Urls == {ScoreboardUrl(d) : d \in Dates \cup {DateC, DateD, DateE}}
        \cup {SummaryUrl(id) : id \in EspnIds \cup {"404"}}

Bodies ==
    [url \in Urls |-> IF url[1] = "scoreboard" THEN ScoreboardBodies(url[2])
                      ELSE SummaryBodies(url[2])]

(* The transport's behaviours for a request of url: an answer (None when   *)
(* the request fails) and the ticks it takes                               *)
Answers == [url \in Urls |-> {None} \cup {Some(b) : b \in Bodies[url]}]
Net(url, latencies) == [resp : Answers[url], lat : latencies]
NoNet == [resp |-> None, lat |-> 0]

(* Team hints callers pass to get_mapping *)
Hints == {None, Some(<<"Washington Commanders", "ARI">>)}

(* Source plays callers pass to match_play *)
SourcePlay(game_id, absolute_yardline, hint) ==
    [game_id |-> game_id, play_id |-> 101, absolute_yardline |-> absolute_yardline,
     play_direction |-> "right", ball_land_x |-> 63, ball_land_y |-> 0,
     num_frames |-> 21, play_sequence_hint |-> hint]
SourcePlays ==
    {SourcePlay(IdA0, 42, Some(3)), SourcePlay(IdA1, 42, None),
     SourcePlay(IdB5, 100, Some(9))}

(* Source ids of DateD and the team hints callers pass with them: names   *)
(* and abbreviations in both orders, and a pair no game of the day has    *)
MapIds == {IdD0, IdD1, IdD3}
MapHints ==
    {None, Some(<<"Washington Commanders", "DET">>),
     Some(<<"DET", "Washington Commanders">>), Some(<<"kc", "Detroit Lions">>),
     Some(<<"Detroit Lions", "kc">>), Some(<<"KC", "ARI">>)}

(* The dicts callers pass to match_plays_batch: plays of the first day,   *)
(* a play no provider play is near, and a record without yard line        *)
BatchPlay(game_id, absolute_yardline) ==
    [game_id |-> game_id, play_id |-> 101, absolute_yardline |-> absolute_yardline,
     play_direction |-> "right", ball_land_x |-> 63, ball_land_y |-> 0,
     num_frames |-> 21]
NoYardline(game_id) ==
    [game_id |-> game_id, play_id |-> 102, play_direction |-> "left"]
BatchPlays ==
    {BatchPlay(IdA1, 42), BatchPlay(IdA0, 40), BatchPlay(IdB5, 100), NoYardline(IdA1)}
MaxBatch == 2
Batches == UNION {[1..n -> BatchPlays] : n \in 1..MaxBatch}

(* Source plays of the game of DateC: yard lines and position hints *)
MatchYardlines == {42, 45, 75, 110}
MatchHints == {None, Some(0), Some(2), Some(3), Some(9)}
MatchPlays == {SourcePlay(IdC0, a, h) : a \in MatchYardlines, h \in MatchHints}

(* A mapping a previous run left in the cache file *)
Preloaded == IdA1 :> NewMapping(IdA1, DateA, ParseEvent(Event("402")))

----------------------------------------------------------------------------
(* The system: one client shared by one mapper and one matcher, as         *)
(* NFLPipeline.__init__ builds them (src/pipeline.py:56-65), and one       *)
(* caller that makes one call after the other.                             *)

(* The callers of SpecConc and where each is in _get *)
Threads == {1, 2}
Idle == [pc |-> "idle", url |-> <<>>, wake |-> 0, resp |-> None]

(* What the file system may do with a write of the cache file *)
Outcomes == {"ok", "refused", "cut"}

(* No batch has been started; a batch under way with the plays left to    *)
(* match and the results so far; a batch that returned or raised           *)
NoBatch == [state |-> "none", queue |-> <<>>, results |-> <<>>]
Batch(state, queue, results) == [state |-> state, queue |-> queue, results |-> results]

(* The call c ended with exception exc leaving it ("": it returned) *)
Raising(c, exc) == IF exc = "" THEN c ELSE [raised |-> exc] @@ c
RaisedBy(c) == IF "raised" \in DOMAIN c THEN c.raised ELSE ""

(* The last call made: the operation and its arguments; whether the id was *)
(* in the mappings (known) and had been returned before (again); whether   *)
(* the game's plays were held by the matcher (seen); the requests the call *)
(* sent; the outcome of its cache-file write ("none": no write); and what  *)
(* get_mapping returned in it                                              *)
Called(op, arg, known, again, seen, sent, io, mapping) ==
    [op |-> op, arg |-> arg, known |-> known, again |-> again, seen |-> seen,
     sent |-> sent, io |-> io, mapping |-> mapping]

Init ==
    /\ now = rate_limit_seconds
    /\ cache_enabled \in BOOLEAN
    /\ cache = <<>>
    /\ last_request_time = 0
    /\ issued = <<>>
    /\ cleared = 0
    /\ cache_file \in BOOLEAN
    /\ store \in IF cache_file THEN {NoFile, FileWith(SaveData(Preloaded))} ELSE {NoFile}
    /\ mappings = IF cache_file THEN LoadCache(store) ELSE <<>>
    /\ espn_plays_cache = <<>>
    /\ game_info_cache = <<>>
    /\ returned = <<>>
    /\ threads = [t \in Threads |-> Idle]
    /\ batch = NoBatch
    /\ call = Called("init", <<>>, FALSE, FALSE, FALSE, 0, "none", None)
    /\ result = None

SetClient(cs) ==
    /\ Len(cs.issued) <= MaxRequests
    /\ cs.now <= MaxTime
    /\ now' = cs.now
    /\ cache' = cs.cache
    /\ last_request_time' = cs.last_request_time
    /\ issued' = cs.issued
    /\ UNCHANGED cache_enabled

SetMapper(ms) ==
    /\ mappings' = ms.mappings
    /\ store' = ms.store
    /\ UNCHANGED cache_file

SetMatcher(ps) ==
    /\ espn_plays_cache' = ps.espn_plays_cache
    /\ game_info_cache' = ps.game_info_cache

(* The first mapping returned for an id is remembered *)
Remember(bdb_game_id, mapping) ==
    returned' = IF IsNone(mapping) \/ bdb_game_id \in DOMAIN returned THEN returned
                ELSE Put(returned, bdb_game_id, Val(mapping))

(* The transport's behaviours if url has to be requested, else none; no   *)
(* request is made beyond the bound on the log                             *)
NetIf(needed, url, latencies, cs) ==
    IF ~needed THEN {NoNet}
    ELSE IF Len(cs.issued) >= MaxRequests THEN {}
    ELSE Net(url, latencies)

(* What the file system may do with the write of a new mapping *)
IoIf(written) == IF written /\ cache_file THEN Outcomes ELSE {"none"}

(* get_mapping with the write's outcome io, given its result `saved` when  *)
(* the write succeeds or is not made                                       *)
MappingWith(saved, bdb_game_id, teams, n, io) ==
    IF io \in {"ok", "none"} THEN saved
    ELSE GetMapping(MapperState, ClientState, bdb_game_id, teams, n.resp, n.lat, io)

DoneGetScoreboard(r, date) ==
    /\ SetClient(r.cs)
    /\ call' = Raising(Called("get_scoreboard", date, FALSE, FALSE, FALSE,
                              Len(r.cs.issued) - Len(issued), "none", None),
                       r.raised)
    /\ result' = IF r.raised = "" THEN r.games ELSE None
    /\ UNCHANGED <<cleared, mappings, cache_file, store, espn_plays_cache,
                   game_info_cache, returned, threads, batch>>

(* A caller calls get_scoreboard(date) *)
CallGetScoreboard(date, latencies) ==
    \E n \in NetIf(~CacheHit(ClientState, ScoreboardUrl(date)),
                   ScoreboardUrl(date), latencies, ClientState) :
        DoneGetScoreboard(GetScoreboard(ClientState, date, n.resp, n.lat), date)

DoneGetGameSummary(r, espn_game_id) ==
    /\ SetClient(r.cs)
    /\ call' = Called("get_game_summary", espn_game_id, FALSE, FALSE, FALSE,
                      Len(r.cs.issued) - Len(issued), "none", None)
    /\ result' = r.data
    /\ UNCHANGED <<cleared, mappings, cache_file, store, espn_plays_cache,
                   game_info_cache, returned, threads, batch>>

(* A caller calls get_game_summary(espn_game_id) *)
CallGetGameSummary(espn_game_id, latencies) ==
    \E n \in NetIf(~CacheHit(ClientState, SummaryUrl(espn_game_id)),
                   SummaryUrl(espn_game_id), latencies, ClientState) :
        DoneGetGameSummary(GetGameSummary(ClientState, espn_game_id, n.resp, n.lat),
                           espn_game_id)

DoneGetPlays(r, espn_game_id) ==
    /\ SetClient(r.cs)
    /\ call' = Called("get_plays", espn_game_id, FALSE, FALSE, FALSE,
                      Len(r.cs.issued) - Len(issued), "none", None)
    /\ result' = r.plays
    /\ UNCHANGED <<cleared, mappings, cache_file, store, espn_plays_cache,
                   game_info_cache, returned, threads, batch>>

(* A caller calls get_plays(espn_game_id) *)
CallGetPlays(espn_game_id, latencies) ==
    \E n \in NetIf(~CacheHit(ClientState, SummaryUrl(espn_game_id)),
                   SummaryUrl(espn_game_id), latencies, ClientState) :
        DoneGetPlays(GetPlays(ClientState, espn_game_id, n.resp, n.lat), espn_game_id)

(* A caller calls clear_cache() *)
CallClearCache ==
    /\ cache # <<>>
    /\ cache' = ClearCacheOp(ClientState).cache
    /\ cleared' = Len(issued)
    /\ call' = Called("clear_cache", <<>>, FALSE, FALSE, FALSE, 0, "none", None)
    /\ result' = None
    /\ UNCHANGED <<now, cache_enabled, last_request_time, issued, mappings,
                   cache_file, store, espn_plays_cache, game_info_cache, returned,
                   threads, batch>>

DoneGetMapping(r, bdb_game_id, teams, io) ==
    /\ SetClient(r.cs)
    /\ SetMapper(r.ms)
    /\ Remember(bdb_game_id, r.mapping)
    /\ call' = Called("get_mapping", [bdb_game_id |-> bdb_game_id, teams |-> teams],
                      bdb_game_id \in DOMAIN mappings, bdb_game_id \in DOMAIN returned,
                      FALSE, Len(r.cs.issued) - Len(issued), io, r.mapping)
    /\ result' = r.mapping
    /\ UNCHANGED <<cleared, espn_plays_cache, game_info_cache, threads, batch>>

(* A caller calls get_mapping(bdb_game_id, teams) *)
CallGetMapping(bdb_game_id, teams, latencies) ==
    \E n \in NetIf(~Mapped(MapperState, bdb_game_id)
                     /\ ~CacheHit(ClientState,
                                  ScoreboardUrl(parse_bdb_game_id(bdb_game_id).date)),
                   ScoreboardUrl(parse_bdb_game_id(bdb_game_id).date), latencies,
                   ClientState) :
      \E saved \in {GetMapping(MapperState, ClientState, bdb_game_id, teams,
                               n.resp, n.lat, "ok")} :
        \E io \in IoIf(~Mapped(MapperState, bdb_game_id) /\ ~IsNone(saved.mapping)) :
            DoneGetMapping(MappingWith(saved, bdb_game_id, teams, n, io),
                           bdb_game_id, teams, io)

DoneMatchPlay(r, gm, p, io) ==
    /\ SetClient(r.cs)
    /\ SetMapper(r.ms)
    /\ SetMatcher(r.ps)
    /\ Remember(p.game_id, gm.mapping)
    /\ call' = Called("match_play", p,
                      p.game_id \in DOMAIN mappings, p.game_id \in DOMAIN returned,
                      ~IsNone(gm.mapping)
                        /\ Val(gm.mapping).espn_game_id \in DOMAIN espn_plays_cache,
                      Len(r.cs.issued) - Len(issued), io, gm.mapping)
    /\ result' = r.enriched
    /\ UNCHANGED <<cleared, threads>>

(* The summary requests of match_play for the game of mapping gm: n2 for   *)
(* _get_espn_plays and n3 for _get_game_info, if they are made             *)
MatchPlayOf(gm, espn_game_id, p, latencies, io) ==
    \E n2 \in NetIf(~PlaysKnown(MatcherState, espn_game_id)
                      /\ ~CacheHit(gm.cs, SummaryUrl(espn_game_id)),
                    SummaryUrl(espn_game_id), latencies, gm.cs) :
      \E ep \in {GetEspnPlays(MatcherState, gm.cs, espn_game_id, n2.resp, n2.lat)} :
        \E n3 \in NetIf(Len(ep.plays) > 0
                          /\ espn_game_id \notin DOMAIN game_info_cache
                          /\ ~CacheHit(ep.cs, SummaryUrl(espn_game_id)),
                        SummaryUrl(espn_game_id), latencies, ep.cs) :
            DoneMatchPlay(MatchAfterMapping(MatcherState, gm, p, n2, n3), gm, p, io)

(* match_play is called with the fields of p.  The transport is asked     *)
(* only for the requests the call makes.                                   *)
MatchPlayCall(p, latencies) ==
    \E n1 \in NetIf(~Mapped(MapperState, p.game_id)
                      /\ ~CacheHit(ClientState,
                                   ScoreboardUrl(parse_bdb_game_id(p.game_id).date)),
                    ScoreboardUrl(parse_bdb_game_id(p.game_id).date), latencies,
                    ClientState) :
      \E saved \in {GetMapping(MapperState, ClientState, p.game_id, None,
                               n1.resp, n1.lat, "ok")} :
        \E io \in IoIf(~Mapped(MapperState, p.game_id) /\ ~IsNone(saved.mapping)) :
          \E gm \in {MappingWith(saved, p.game_id, None, n1, io)} :
            IF IsNone(gm.mapping)
            THEN DoneMatchPlay(MatchAfterMapping(MatcherState, gm, p, NoNet, NoNet),
                               gm, p, io)
            ELSE MatchPlayOf(gm, Val(gm.mapping).espn_game_id, p, latencies, io)

(* In the system specification requests take no time: no decision of the   *)
(* mapper or the matcher reads the clock.                                  *)
Instant == {0}

(* A caller calls match_play *)
CallMatchPlay(p, latencies) == MatchPlayCall(p, latencies) /\ UNCHANGED batch

(* match_plays_batch, lines 310-315: the plays grouped by game_id, the     *)
(* games in the order of their first play.  FirstOfGame is the position of *)
(* the first play of the game of plays[i], SeqIdx the index of plays[i]    *)
(* within its game, Rank its place in the order of processing.             *)
FirstOfGame(plays, i) == MinOf({j \in DOMAIN plays : plays[j].game_id = plays[i].game_id})
SeqIdx(plays, i) == Cardinality({j \in 1..(i - 1) : plays[j].game_id = plays[i].game_id})
Rank(plays, i) ==
    1 + Cardinality({j \in DOMAIN plays :
                        \/ FirstOfGame(plays, j) < FirstOfGame(plays, i)
                        \/ FirstOfGame(plays, j) = FirstOfGame(plays, i) /\ j < i})
AtRank(plays, r) == CHOOSE i \in DOMAIN plays : Rank(plays, i) = r
Grouped(plays) ==
    [r \in DOMAIN plays |->
        [seq_idx |-> SeqIdx(plays, AtRank(plays, r)), orig_idx |-> AtRank(plays, r) - 1,
         play |-> plays[AtRank(plays, r)]]]

(* enrich_plays, src/pipeline.py:135-147: the rows in the order of the     *)
(* frame, each with its index in the frame, which is passed as the hint    *)
Framed(plays_df) ==
    [i \in DOMAIN plays_df |->
        [seq_idx |-> i - 1, orig_idx |-> i - 1, play |-> plays_df[i]]]

(* match_plays_batch, lines 321-330: the arguments of match_play for an    *)
(* item of a group; play['play_id'] and play['absolute_yardline'] raise    *)
(* KeyError when the key is missing, the other fields have defaults        *)
RaisesKeyError(play) ==
    "play_id" \notin DOMAIN play \/ "absolute_yardline" \notin DOMAIN play
ArgumentsOf(item) ==
    [game_id |-> item.play.game_id, play_id |-> item.play.play_id,
     absolute_yardline |-> item.play.absolute_yardline,
     play_direction |-> JGet(item.play, "play_direction", "right"),
     ball_land_x |-> JGet(item.play, "ball_land_x", 0),
     ball_land_y |-> JGet(item.play, "ball_land_y", 0),
     num_frames |-> JGet(item.play, "num_frames", 0),
     play_sequence_hint |-> Some(item.seq_idx)]

(* match_plays_batch, lines 332-335: a match is appended to the results;   *)
(* after the last play the results are returned                            *)
AfterMatch(b, enriched) ==
    Batch(IF Len(b.queue) = 1 THEN "returned" ELSE "running", Tail(b.queue),
          IF IsNone(enriched) THEN b.results ELSE Append(b.results, Val(enriched)))

(* A caller calls match_plays_batch(plays): lines 308-315 *)
CallMatchPlaysBatch(plays) ==
    /\ batch.state # "running"
    /\ batch' = Batch("running", Grouped(plays), <<>>)
    /\ call' = Called("match_plays_batch", plays, FALSE, FALSE, FALSE, 0, "none", None)
    /\ result' = None
    /\ UNCHANGED <<now, cache_enabled, cache, last_request_time, issued, cleared,
                   mappings, cache_file, store, espn_plays_cache, game_info_cache,
                   returned, threads>>

(* A caller calls enrich_plays(plays_df): src/pipeline.py:133-137 *)
CallEnrichPlays(plays_df) ==
    /\ batch.state # "running"
    /\ batch' = Batch("running", Framed(plays_df), <<>>)
    /\ call' = Called("enrich_plays", plays_df, FALSE, FALSE, FALSE, 0, "none", None)
    /\ result' = None
    /\ UNCHANGED <<now, cache_enabled, cache, last_request_time, issued, cleared,
                   mappings, cache_file, store, espn_plays_cache, game_info_cache,
                   returned, threads>>

(* match_plays_batch, lines 320-335: one turn of the loops.  Nothing in    *)
(* match_plays_batch catches an exception: a KeyError raised while the     *)
(* arguments are read ends the call, with the plays left unprocessed.      *)
BatchStep ==
    /\ batch.state = "running"
    /\ IF RaisesKeyError(Head(batch.queue).play)
       THEN /\ batch' = Batch("raised", batch.queue, batch.results)
            /\ UNCHANGED <<now, cache_enabled, cache, last_request_time, issued,
                           cleared, mappings, cache_file, store, espn_plays_cache,
                           game_info_cache, returned, threads, call, result>>
       ELSE /\ MatchPlayCall(ArgumentsOf(Head(batch.queue)), Instant)
            /\ batch' = AfterMatch(batch, result')

(* Time passes: the callers wait *)
Tick ==
    /\ now < MaxTime
    /\ now' = now + 1
    /\ call' = Called("wait", <<>>, FALSE, FALSE, FALSE, 0, "none", None)
    /\ UNCHANGED <<cache_enabled, cache, last_request_time, issued, cleared,
                   mappings, cache_file, store, espn_plays_cache, game_info_cache,
                   returned, threads, batch, result>>

Next ==
    \/ CallClearCache
    \/ \E id \in SourceIds, teams \in Hints : CallGetMapping(id, teams, Instant)
    \/ \E p \in SourcePlays : CallMatchPlay(p, Instant)

Spec == Init /\ [][Next]_vars

(* The client alone, with time: the caller fetches schedules and           *)
(* summaries, waits between calls, and requests take time.                 *)
InitClient == Init /\ ~cache_file

NextClient ==
    \/ Tick
    \/ CallClearCache
    \/ \E date \in Dates : CallGetScoreboard(date, 0..MaxLatency)
    \/ \E id \in EspnIds : CallGetGameSummary(id, 0..MaxLatency)

SpecClient == InitClient /\ [][NextClient]_vars

----------------------------------------------------------------------------
(* The play lists: a caller asks the client for the plays and the summary  *)
(* of games again and again, of a finished game or of one with a drive in  *)
(* progress.  The drives a memoized summary lists are capped at MaxDrives. *)
MaxDrives == 4
DrivesHeld(espn_game_id) ==
    IF SummaryUrl(espn_game_id) \in DOMAIN cache
    THEN Len(JGet(JGet(cache[SummaryUrl(espn_game_id)], "drives", EmptyObj),
                  "previous", <<>>))
    ELSE 0

NextPlays ==
    \/ Tick
    \/ CallClearCache
    \/ \E id \in {"401", "402"} :
          DrivesHeld(id) < MaxDrives /\ CallGetPlays(id, Instant)
    \/ \E id \in {"401", "402"} : CallGetGameSummary(id, Instant)

SpecPlays == InitClient /\ [][NextPlays]_vars

----------------------------------------------------------------------------
(* Several callers in _get on one client at once.  Nothing in _get or in   *)
(* _rate_limit is locked, so the callers interleave line by line.          *)

StepOf(t, pc, url, wake, resp) ==
    threads' = [threads EXCEPT ![t] = [pc |-> pc, url |-> url, wake |-> wake,
                                       resp |-> resp]]

(* _get, lines 82-84: caller t enters _get(url); a memoized response is    *)
(* returned at once                                                        *)
Enter(t, url) ==
    /\ threads[t].pc = "idle"
    /\ IF CacheHit(ClientState, url)
       THEN UNCHANGED threads
       ELSE StepOf(t, "gate", url, 0, None)
    /\ UNCHANGED <<now, cache_enabled, cache, last_request_time, issued, cleared,
                   mappings, cache_file, store, espn_plays_cache, game_info_cache,
                   returned, batch, call, result>>

(* _rate_limit, lines 67-69: caller t reads the clock and the last request *)
(* time, and goes to sleep if the interval has not elapsed                 *)
Gate(t) ==
    /\ threads[t].pc = "gate"
    /\ IF SleepFor(now, last_request_time) > 0
       THEN StepOf(t, "sleep", threads[t].url,
                   now + SleepFor(now, last_request_time), None)
       ELSE StepOf(t, "send", threads[t].url, 0, None)
    /\ UNCHANGED <<now, cache_enabled, cache, last_request_time, issued, cleared,
                   mappings, cache_file, store, espn_plays_cache, game_info_cache,
                   returned, batch, call, result>>

(* _rate_limit, line 69: the sleep of caller t is over *)
Wake(t) ==
    /\ threads[t].pc = "sleep"
    /\ now >= threads[t].wake
    /\ StepOf(t, "send", threads[t].url, 0, None)
    /\ UNCHANGED <<now, cache_enabled, cache, last_request_time, issued, cleared,
                   mappings, cache_file, store, espn_plays_cache, game_info_cache,
                   returned, batch, call, result>>

(* _rate_limit, line 70, and _get, line 90: caller t records the time and  *)
(* sends the request; resp is what the transport will answer               *)
Issue(t) ==
    /\ threads[t].pc = "send"
    /\ Len(issued) < MaxRequests
    /\ \E resp \in Answers[threads[t].url] :
        /\ SetClient(Send(Record(ClientState, now), threads[t].url, resp, 0))
        /\ StepOf(t, "wait", threads[t].url, 0, resp)
    /\ UNCHANGED <<cleared, mappings, cache_file, store, espn_plays_cache,
                   game_info_cache, returned, batch, call, result>>

(* _get, lines 91-101: the answer arrives; a successful one is memoized *)
Answer(t) ==
    /\ threads[t].pc = "wait"
    /\ SetClient(Memoize(ClientState, threads[t].url, threads[t].resp))
    /\ threads' = [threads EXCEPT ![t] = Idle]
    /\ UNCHANGED <<cleared, mappings, cache_file, store, espn_plays_cache,
                   game_info_cache, returned, batch, call, result>>

(* The URLs the concurrent callers fetch: one of each endpoint *)
ConcUrls == {ScoreboardUrl(DateB), SummaryUrl("402")}

NextConc ==
    \/ Tick
    \/ \E t \in Threads, url \in ConcUrls : Enter(t, url)
    \/ \E t \in Threads : Gate(t)
    \/ \E t \in Threads : Wake(t)
    \/ \E t \in Threads : Issue(t)
    \/ \E t \in Threads : Answer(t)

SpecConc == InitClient /\ [][NextConc]_vars

----------------------------------------------------------------------------
(* The matcher on the plays of one game: a caller matches source plays of  *)
(* the game of DateC, whose summary the provider answers with one of three *)
(* play lists.                                                             *)
InitMatch == Init /\ cache_enabled

NextMatch == \E p \in MatchPlays : CallMatchPlay(p, Instant)

SpecMatch == InitMatch /\ [][NextMatch]_vars

----------------------------------------------------------------------------
(* Construction over a cache file left by an earlier run or damaged since: *)
(* GameMapper(cache_file=...) loads it, then a caller maps source ids.      *)
Stored == (IdA0 :> NewMapping(IdA0, DateA, ParseEvent(Event("401"))))
            @@ (IdA1 :> NewMapping(IdA1, DateA, ParseEvent(Event("402"))))

(* The entry of id with its stadium field missing *)
NoStadium(data, id) ==
    [data EXCEPT ![id] = [k \in DOMAIN @ \ {"stadium"} |-> @[k]]]

LoadFiles ==
    {FileWith(SaveData(Stored)), Truncated, ListFile, Unreadable,
     FileWith(NoStadium(SaveData(Stored), IdA0)),
     FileWith(NoStadium(SaveData(Stored), IdA1))}

InitLoad ==
    /\ now = rate_limit_seconds
    /\ cache_enabled = TRUE
    /\ cache = <<>>
    /\ last_request_time = 0
    /\ issued = <<>>
    /\ cleared = 0
    /\ cache_file = TRUE
    /\ store \in LoadFiles
    /\ mappings = LoadCache(store)
    /\ espn_plays_cache = <<>>
    /\ game_info_cache = <<>>
    /\ returned = <<>>
    /\ threads = [t \in Threads |-> Idle]
    /\ batch = NoBatch
    /\ call = Raising(Called("init", <<>>, FALSE, FALSE, FALSE, 0, "none", None),
                      InitError(cache_file, store))
    /\ result = None

(* No call is made on a mapper whose construction raised *)
NextLoad ==
    \/ Tick
    \/ /\ RaisedBy(call) = ""
       /\ \E id \in {IdA0, IdA1, IdB5} : CallGetMapping(id, None, Instant)

SpecLoad == InitLoad /\ [][NextLoad]_vars

----------------------------------------------------------------------------
(* Tracking rows to unique plays.  A row has the key columns game_id and   *)
(* play_id and, of the value columns, absolute_yardline_number and         *)
(* ball_land_x; a cell of a value column holds Some(value) or is missing   *)
(* (None: NaN in the DataFrame, the empty string in the CSV reader).       *)
KeyOf(row) == <<row.game_id, row.play_id>>
KeysOf(df) == {KeyOf(df[i]) : i \in DOMAIN df}

(* groupby sorts the groups by key: game_id, then play_id *)
KeyLess(a, b) ==
    \/ DigitsToInt(a[1]) < DigitsToInt(b[1])
    \/ a[1] = b[1] /\ a[2] < b[2]
LeastKey(S) == CHOOSE k \in S : \A j \in S \ {k} : KeyLess(k, j)

RECURSIVE SortedKeys(_)
SortedFrom(S, least) == <<least>> \o SortedKeys(S \ {least})
SortedKeys(S) == IF S = {} THEN <<>> ELSE SortedFrom(S, LeastKey(S))

(* pandas GroupBy.first, as agg('first') applies it to one column of one   *)
(* group: the first entry that is not NaN, NaN when the group has none     *)
GroupFirst(df, key, col) ==
    IF \E i \in DOMAIN df : KeyOf(df[i]) = key /\ ~IsNone(df[i][col])
    THEN df[MinOf({i \in DOMAIN df : KeyOf(df[i]) = key /\ ~IsNone(df[i][col])})][col]
    ELSE None

(* extract_unique_plays, lines 104-113: the row of one group *)
UniquePlay(df, key) ==
    [game_id |-> key[1], play_id |-> key[2],
     absolute_yardline |-> GroupFirst(df, key, "absolute_yardline_number"),
     ball_land_x |-> GroupFirst(df, key, "ball_land_x")]

(* NFLPipeline.extract_unique_plays, src/pipeline.py:93-116 *)
extract_unique_plays(df) ==
    [i \in 1..Cardinality(KeysOf(df)) |-> UniquePlay(df, SortedKeys(KeysOf(df))[i])]

(* load_unique_plays, test_grok_videos.py:27-38: the rows that open a key; *)
(* int(float('')) of a missing cell raises ValueError                      *)
Opens(rows, i) == \A j \in 1..(i - 1) : KeyOf(rows[j]) # KeyOf(rows[i])
Incomplete(row) == IsNone(row.absolute_yardline_number) \/ IsNone(row.ball_land_x)
PlayOfRow(row) ==
    [game_id |-> row.game_id, play_id |-> row.play_id,
     absolute_yardline |-> row.absolute_yardline_number,
     ball_land_x |-> row.ball_land_x]

RECURSIVE PlaysFromRow(_, _)
PlaysFromRow(rows, i) ==
    IF i > Len(rows) THEN <<>>
    ELSE IF Opens(rows, i) THEN <<PlayOfRow(rows[i])>> \o PlaysFromRow(rows, i + 1)
    ELSE PlaysFromRow(rows, i + 1)

LoadPlaysError(rows) ==
    IF \E i \in DOMAIN rows : Opens(rows, i) /\ Incomplete(rows[i])
    THEN "ValueError" ELSE ""
load_unique_plays(rows) ==
    IF LoadPlaysError(rows) = "" THEN PlaysFromRow(rows, 1) ELSE <<>>

(* The tracking rows of the callers: up to MaxRows rows of three plays of  *)
(* two games, with cells present or missing                                *)
MaxRows == 3
TrackingRows ==
    {row \in [game_id : {IdA0, IdA1}, play_id : {101, 102},
              absolute_yardline_number : {None, Some(42), Some(45)},
              ball_land_x : {None, Some(63)}] :
        row.game_id = IdA1 => row.play_id = 101}
Frames == UNION {[1..n -> TrackingRows] : n \in 1..MaxRows}

CallExtractUniquePlays(df) ==
    /\ call' = Called("extract_unique_plays", df, FALSE, FALSE, FALSE, 0, "none", None)
    /\ result' = extract_unique_plays(df)
    /\ UNCHANGED <<now, cache_enabled, cache, last_request_time, issued, cleared,
                   mappings, cache_file, store, espn_plays_cache, game_info_cache,
                   returned, threads, batch>>

CallLoadUniquePlays(rows) ==
    /\ call' = Raising(Called("load_unique_plays", rows, FALSE, FALSE, FALSE, 0,
                              "none", None),
                       LoadPlaysError(rows))
    /\ result' = load_unique_plays(rows)
    /\ UNCHANGED <<now, cache_enabled, cache, last_request_time, issued, cleared,
                   mappings, cache_file, store, espn_plays_cache, game_info_cache,
                   returned, threads, batch>>

(* Either loader is applied to the rows read *)
NextRows ==
    \/ CallExtractUniquePlays(call.arg)
    \/ CallLoadUniquePlays(call.arg)

(* The rows are read from the file before either loader is applied *)
InitRows ==
    /\ now = rate_limit_seconds
    /\ cache_enabled = TRUE
    /\ cache = <<>>
    /\ last_request_time = 0
    /\ issued = <<>>
    /\ cleared = 0
    /\ cache_file = FALSE
    /\ store = NoFile
    /\ mappings = <<>>
    /\ espn_plays_cache = <<>>
    /\ game_info_cache = <<>>
    /\ returned = <<>>
    /\ threads = [t \in Threads |-> Idle]
    /\ batch = NoBatch
    /\ \E df \in Frames :
          call = Called("load_tracking_data", df, FALSE, FALSE, FALSE, 0, "none", None)
    /\ result = None

SpecRows == InitRows /\ [][NextRows]_vars

----------------------------------------------------------------------------
(* The schedule parser: a caller fetches the schedule of DateE, which the  *)
(* provider answers with events of unexpected shapes.                      *)
NextParse ==
    \/ Tick
    \/ CallClearCache
    \/ CallGetScoreboard(DateE, Instant)

SpecParse == InitClient /\ [][NextParse]_vars

----------------------------------------------------------------------------
(* Batches: a caller passes lists of plays to match_plays_batch.           *)
NextBatch ==
    \/ \E plays \in Batches : CallMatchPlaysBatch(plays)
    \/ BatchStep

SpecBatch == InitMatch /\ [][NextBatch]_vars

(* The two batch entry points: match_plays_batch on lists of plays, and    *)
(* the pipeline's enrich_plays on frames as extract_unique_plays makes     *)
(* them, one row per play in key order.                                    *)
PlayFrames ==
    {plays \in Batches :
        \A i, j \in DOMAIN plays : i < j => KeyLess(KeyOf(plays[i]), KeyOf(plays[j]))}

NextEnrich ==
    \/ \E plays \in Batches : CallMatchPlaysBatch(plays)
    \/ \E plays_df \in PlayFrames : CallEnrichPlays(plays_df)
    \/ BatchStep

SpecEnrich == InitMatch /\ [][NextEnrich]_vars

----------------------------------------------------------------------------
(* The mapper on the games of one day: a caller maps source ids of DateD,  *)
(* with and without team hints; the provider lists one game or three.      *)
NextMap == \E id \in MapIds, teams \in MapHints : CallGetMapping(id, teams, Instant)

SpecMap == InitMatch /\ [][NextMap]_vars

(* The mapper by sequence number: a caller maps ids of DateD whose last    *)
(* two characters are 00, 01, 03 and -1, with hints that name no game of   *)
(* the day or without hints.                                               *)
NextIndex ==
    \E id \in MapIds \cup {IdDMinus1}, teams \in {None, Some(<<"KC", "ARI">>)} :
        CallGetMapping(id, teams, Instant)

SpecIndex == InitMatch /\ [][NextIndex]_vars

----------------------------------------------------------------------------
(* The scorer alone: a caller applies calculate_match_score to yard lines, *)
(* downs and sequence distances on both sides of every breakpoint.         *)
ScoreYardlines == {42, 45}
EspnYardlines == {54, 55, 58, 60, 62, 63, 65, 66, 67, 68, 69, 70, 73, 74, 78, 79}
Downs == {0, 1, 4}
SequenceDistances == {0, 1, 2, 3, 5, 6}

(* A caller calls calculate_match_score *)
CallCalculateMatchScore(bdb_yardline, espn_yardline, espn_down, sequence_distance) ==
    /\ call' = Called("calculate_match_score",
                      [bdb_yardline |-> bdb_yardline, espn_yardline |-> espn_yardline,
                       bdb_direction |-> "right", espn_down |-> espn_down,
                       sequence_distance |-> sequence_distance],
                      FALSE, FALSE, FALSE, 0, "none", None)
    /\ result' = calculate_match_score(bdb_yardline, espn_yardline, "right",
                                       espn_down, sequence_distance)
    /\ UNCHANGED <<now, cache_enabled, cache, last_request_time, issued, cleared,
                   mappings, cache_file, store, espn_plays_cache, game_info_cache,
                   returned, threads, batch>>

InitScore == InitMatch /\ ~cache_file

(* The yard line conversion alone: a caller applies the static method to   *)
(* every position of the 120-yard field.                                   *)
FieldLength == 120

CallAbsoluteToEspnYardline(absolute_yardline) ==
    /\ call' = Called("absolute_to_espn_yardline", absolute_yardline,
                      FALSE, FALSE, FALSE, 0, "none", None)
    /\ result' = absolute_to_espn_yardline(absolute_yardline)
    /\ UNCHANGED <<now, cache_enabled, cache, last_request_time, issued, cleared,
                   mappings, cache_file, store, espn_plays_cache, game_info_cache,
                   returned, threads, batch>>

NextYard == \E a \in 0..FieldLength : CallAbsoluteToEspnYardline(a)

SpecYard == InitScore /\ [][NextYard]_vars

NextScore ==
    \E a \in ScoreYardlines, y \in EspnYardlines, d \in Downs, q \in SequenceDistances :
        CallCalculateMatchScore(a, y, d, q)

SpecScore == InitScore /\ [][NextScore]_vars

----------------------------------------------------------------------------
(* Properties *)

ScheduleRequests(date) == {i \in DOMAIN issued : issued[i].url = ScoreboardUrl(date)}
SummaryRequests(id) == {i \in DOMAIN issued : issued[i].url = SummaryUrl(id)}
MaxOf(S) == CHOOSE i \in S : \A j \in S : j <= i

(* The last call went through get_mapping: get_mapping itself or match_play *)
ThroughMapper == call.op \in {"get_mapping", "match_play"}
SourceId == IF call.op = "get_mapping" THEN call.arg.bdb_game_id ELSE call.arg.game_id
(* The log held this many requests when the last call began *)
SentBefore == Len(issued) - call.sent

(* C1: once get_mapping has returned a mapping for a source game id, every *)
(* later get_mapping call for that id, whatever its team hints, returns    *)
(* that same mapping and sends no request (inside match_play too, the      *)
(* mapper answers with that same mapping).                                 *)
C1_SameMappingNoRequest ==
    (ThroughMapper /\ call.again) =>
        /\ call.mapping = Some(returned[SourceId])
        /\ call.op = "get_mapping" => (result = Some(returned[SourceId]) /\ call.sent = 0)

(* C1 happens: game 0 of the first date was mapped by its index to the     *)
(* first game, then asked for again with hints that name the second game   *)
C1_Witness ==
    /\ call.op = "get_mapping" /\ call.again
    /\ call.arg.bdb_game_id = IdA0 /\ ~IsNone(call.arg.teams)
    /\ result = Some(returned[IdA0]) /\ returned[IdA0].espn_game_id = "401"

(* C2: with one caller, any two consecutive outbound requests, to any      *)
(* endpoints and whether or not the earlier one succeeded, are issued at   *)
(* least rate_limit_seconds apart.                                         *)
C2_RequestsSpaced ==
    \A i \in 1..(Len(issued) - 1) :
        issued[i + 1].time - issued[i].time >= rate_limit_seconds

(* C2 happens: a failed schedule request, then with no delay of the caller *)
(* a summary request, exactly the interval later                           *)
C2_Witness ==
    /\ Len(issued) >= 2
    /\ ~issued[1].ok /\ issued[1].url[1] = "scoreboard" /\ issued[2].url[1] = "summary"
    /\ issued[2].time - issued[1].time = rate_limit_seconds

(* C3: with several callers in _get at once, no two outbound requests are  *)
(* issued less than rate_limit_seconds apart.                              *)
C3_NoTwoRequestsClose ==
    \A i \in DOMAIN issued : \A j \in DOMAIN issued :
        i < j => issued[j].time - issued[i].time >= rate_limit_seconds

(* The URL a call of the client fetches *)
FetchUrl(c) == IF c.op = "get_scoreboard" THEN ScoreboardUrl(c.arg) ELSE SummaryUrl(c.arg)
(* A request for url succeeded after the last clear_cache *)
SucceededSinceClear(url) ==
    \E i \in DOMAIN issued : i > cleared /\ issued[i].url = url /\ issued[i].ok
(* What the call returns when _get returns data *)
Reply(c, data) == IF c.op = "get_scoreboard" THEN ScoreboardGames(Some(data)) ELSE Some(data)

(* C4: with caching enabled, a fetch of a URL that was fetched with        *)
(* success since the last clear_cache returns the memoized response, sends *)
(* no request, takes no time in the rate gate and leaves the last request  *)
(* time as it was; a fetch that fails leaves the memo as it was.           *)
C4_MemoizedFetch ==
    [][call'.op \in {"get_scoreboard", "get_game_summary"} =>
        /\ (cache_enabled /\ SucceededSinceClear(FetchUrl(call'))) =>
              /\ issued' = issued /\ now' = now
              /\ last_request_time' = last_request_time /\ cache' = cache
              /\ FetchUrl(call') \in DOMAIN cache
              /\ result' = Reply(call', cache[FetchUrl(call')])
        /\ (Len(issued') > Len(issued) /\ ~issued'[Len(issued')].ok) => cache' = cache
    ]_vars

(* C4 happens: a summary is returned from the memo inside the interval of  *)
(* the request that fetched it, and a failed fetch left that memo alone    *)
C4_Witness ==
    /\ cache_enabled /\ call.op = "get_game_summary" /\ call.sent = 0
    /\ ~IsNone(result) /\ now - last_request_time < rate_limit_seconds
    /\ \E i \in DOMAIN issued : ~issued[i].ok

(* C5 as claimed: while no cache is cleared, at most one summary request   *)
(* is issued per ESPN game.                                                *)
C5_OneSummaryRequestPerGame ==
    cleared = 0 => \A id \in EspnIds : Cardinality(SummaryRequests(id)) <= 1

(* C5, amended: when the client memoizes responses (cache_enabled) and no  *)
(* cache is cleared, at most one summary request is issued per ESPN game.  *)
C5_OneSummaryRequestWhenMemoizing ==
    (cache_enabled /\ cleared = 0) =>
        \A id \in EspnIds : Cardinality(SummaryRequests(id)) <= 1

(* C5 happens: a further play of a game is matched, plays and game info    *)
(* are held, and one summary request was made for the game                 *)
C5_Witness ==
    /\ cache_enabled /\ cleared = 0
    /\ call.op = "match_play" /\ call.seen /\ ~IsNone(result)
    /\ Val(call.mapping).espn_game_id \in DOMAIN game_info_cache
    /\ Cardinality(SummaryRequests(Val(call.mapping).espn_game_id)) = 1

(* C6 as claimed: after a schedule request for a date failed, no further   *)
(* schedule request for that date is issued.                               *)
C6_NoRequestAfterFailure ==
    \A date \in Dates : \A i \in ScheduleRequests(date) :
        ~issued[i].ok => \A j \in ScheduleRequests(date) : j <= i

(* The schedule requests of the last call's date before the call began *)
EarlierScheduleRequests ==
    {i \in ScheduleRequests(parse_bdb_game_id(SourceId).date) : i <= SentBefore}

(* C6, amended: a get_mapping or match_play call sends at most one         *)
(* schedule request (no retry inside the call), and a failure is not       *)
(* remembered: when the last schedule request for the date failed, a call  *)
(* for an id of that date that is not mapped sends a new schedule request. *)
C6_FailureNotRemembered ==
    ThroughMapper =>
        /\ Cardinality(ScheduleRequests(parse_bdb_game_id(SourceId).date)
                       \ EarlierScheduleRequests) <= 1
        /\ (/\ ~call.known
            /\ EarlierScheduleRequests # {}
            /\ ~issued[MaxOf(EarlierScheduleRequests)].ok)
           => /\ call.sent >= 1
              /\ issued[SentBefore + 1].url = ScoreboardUrl(parse_bdb_game_id(SourceId).date)

(* C6 happens: the schedule request of a date failed and a later           *)
(* get_mapping call for an id of that date has sent another                *)
C6_Witness ==
    /\ call.op = "get_mapping" /\ ~call.known /\ call.sent = 1
    /\ EarlierScheduleRequests # {}
    /\ ~issued[MaxOf(EarlierScheduleRequests)].ok

(* The ESPN game of the last match_play call, "" when it was not mapped *)
MatchedGame ==
    IF call.op = "match_play" /\ ~IsNone(call.mapping)
    THEN Val(call.mapping).espn_game_id ELSE ""

(* C7 as claimed: when a summary request for the game of a match_play call *)
(* has failed, the call returns no match and no summary request for the    *)
(* game follows the failed one.                                            *)
C7_NoMatchAfterAnyFailure ==
    \A i \in SummaryRequests(MatchedGame) :
        ~issued[i].ok => (IsNone(result) /\ \A j \in SummaryRequests(MatchedGame) : j <= i)

(* C7, amended: when the summary request made for the play list of a game  *)
(* (the first summary request for the game) failed, match_play for that    *)
(* game returns no match, in that call and in every later one, and no      *)
(* other summary request for the game is issued.                           *)
C7_NoMatchAfterPlaysFailure ==
    (SummaryRequests(MatchedGame) # {} /\ ~issued[MinOf(SummaryRequests(MatchedGame))].ok)
        => (IsNone(result) /\ Cardinality(SummaryRequests(MatchedGame)) = 1)

(* C7 happens: a later match_play call for a game whose play-list request  *)
(* failed                                                                  *)
C7_Witness ==
    /\ call.op = "match_play" /\ call.seen /\ IsNone(result)
    /\ SummaryRequests(MatchedGame) # {}
    /\ ~issued[MinOf(SummaryRequests(MatchedGame))].ok

(* C8: a call in which get_mapping returns nothing leaves the mappings and *)
(* the cache file exactly as they were.                                    *)
C8_NothingKeptOnFailure ==
    [][(call'.op \in {"get_mapping", "match_play"} /\ IsNone(call'.mapping)) =>
           (mappings' = mappings /\ store' = store)]_vars

(* C8 happens: get_mapping fetched a schedule and returned nothing while   *)
(* the mappings and the cache file held an entry                           *)
C8_Witness ==
    /\ call.op = "get_mapping" /\ IsNone(result) /\ call.sent = 1
    /\ issued[Len(issued)].ok
    /\ IdA1 \in DOMAIN mappings /\ store.valid /\ IdA1 \in DOMAIN store.data

(* C9: right after a call in which get_mapping created a mapping, with a   *)
(* cache file configured and the write successful, the cache file holds    *)
(* exactly the entries of the mappings.                                    *)
C9_StoreHoldsTheMappings ==
    (ThroughMapper /\ ~call.known /\ ~IsNone(call.mapping) /\ cache_file
       /\ call.io = "ok")
    => /\ store.exists /\ store.valid
       /\ DOMAIN store.data = DOMAIN mappings
       /\ \A id \in DOMAIN mappings : MappingFromDict(store.data[id]) = mappings[id]

(* C9 happens: a mapping was created next to a loaded one and written *)
C9_Witness ==
    /\ call.op = "get_mapping" /\ ~call.known /\ ~IsNone(call.mapping)
    /\ cache_file /\ call.io = "ok"
    /\ Cardinality(DOMAIN mappings) >= 2 /\ DOMAIN store.data = DOMAIN mappings

(* C10: no call removes an entry of the mappings or changes any of its     *)
(* fields.                                                                 *)
C10_EntriesKept ==
    [][\A id \in DOMAIN mappings :
          id \in DOMAIN mappings' /\ mappings'[id] = mappings[id]]_vars

(* C10 happens: next to the loaded entry, two entries were created, the    *)
(* last by a call with team hints                                          *)
C10_Witness ==
    /\ call.op = "get_mapping" /\ ~call.known /\ ~IsNone(call.arg.teams)
    /\ Cardinality(DOMAIN mappings) = 3
    /\ mappings[IdA1] = Preloaded[IdA1]

(* C11: no two source game ids of the mappings have the same ESPN game id. *)
C11_OneToOne ==
    \A a \in DOMAIN mappings : \A b \in DOMAIN mappings :
        mappings[a].espn_game_id = mappings[b].espn_game_id => a = b

(* The plays match_play scored in the last call: those of the game its   *)
(* mapping names; none when there was no mapping                          *)
MatchedPlays ==
    IF call.op = "match_play" /\ ~IsNone(call.mapping)
         /\ Val(call.mapping).espn_game_id \in DOMAIN espn_plays_cache
    THEN espn_plays_cache[Val(call.mapping).espn_game_id]
    ELSE <<>>

(* The positions of the plays that have a yard line or a down (the       *)
(* candidates), and the score of the play at position i if it had index   *)
(* idx in the list                                                        *)
NoFieldPosition(espn_play) == espn_play.yard_line = 0 /\ espn_play.down = 0
Candidates == {i \in DOMAIN MatchedPlays : ~NoFieldPosition(MatchedPlays[i])}
ScoreAt(i, idx) ==
    calculate_match_score(call.arg.absolute_yardline, MatchedPlays[i].yard_line,
                          call.arg.play_direction, MatchedPlays[i].down,
                          SequenceDist(idx, call.arg.play_sequence_hint))
CandidateScore(i) == ScoreAt(i, i - 1)
AtLeast(a, b) == ~FloatLess(a, b)

(* C12: match_play returns an enriched play exactly when some non-excluded *)
(* candidate of the mapped game scores at least 0.3; a best score of      *)
(* exactly 0.3 is accepted, a lower one rejected.                          *)
C12_AcceptedFromThreshold ==
    call.op = "match_play" =>
        (~IsNone(result) <=>
            \E i \in Candidates : AtLeast(CandidateScore(i), Float(3)))

(* a match whose best score is exactly 0.3 *)
C12_Witness ==
    /\ call.op = "match_play" /\ ~IsNone(result)
    /\ Val(result).match_confidence = Float(3)
    /\ \A i \in Candidates : AtLeast(Float(3), CandidateScore(i))

(* a call whose candidates all score below 0.3, the best of them 0.2 *)
C12_Rejected ==
    /\ call.op = "match_play" /\ IsNone(result)
    /\ \E i \in Candidates : CandidateScore(i) = Float(2)

(* C13: the play returned is the candidate of lowest index among those    *)
(* with the maximum score; a later candidate of equal score does not      *)
(* replace it.                                                            *)
C13_FirstOfTheBest ==
    call.op = "match_play" /\ ~IsNone(result) =>
        \E w \in Candidates :
            /\ \A i \in Candidates : AtLeast(CandidateScore(w), CandidateScore(i))
            /\ \A i \in Candidates : i < w => FloatLess(CandidateScore(i), CandidateScore(w))
            /\ Val(result).play_description = MatchedPlays[w].play_text
            /\ Val(result).match_confidence = CandidateScore(w)

(* a match in which a later candidate has the score of the winner *)
C13_Witness ==
    /\ call.op = "match_play" /\ ~IsNone(result)
    /\ \E w \in Candidates : \E i \in Candidates :
          /\ w < i
          /\ CandidateScore(i) = CandidateScore(w)
          /\ Val(result).match_confidence = CandidateScore(w)
          /\ Val(result).play_description = MatchedPlays[w].play_text

(* The positions of the excluded plays, and the index the play at         *)
(* position i has in the list without the play at position k              *)
ExcludedAt == {k \in DOMAIN MatchedPlays : NoFieldPosition(MatchedPlays[k])}
IndexWithout(i, k) == IF i > k THEN i - 2 ELSE i - 1

(* C14 as claimed: a play with yard_line = 0 and down = 0 is never the    *)
(* play returned, and every other candidate scores what it would score in *)
(* the list without that play.                                            *)
C14_ExcludedPlayChangesNoScore ==
    call.op = "match_play" =>
        /\ ~IsNone(result) =>
              \A k \in ExcludedAt :
                  Val(result).play_description # MatchedPlays[k].play_text
        /\ \A k \in ExcludedAt : \A i \in Candidates :
              ScoreAt(i, IndexWithout(i, k)) = CandidateScore(i)

(* C14, amended: a play with yard_line = 0 and down = 0 is never the play *)
(* returned, whatever it would score; the play returned is a non-excluded *)
(* one, no non-excluded play scores more, and each is scored by its index *)
(* in the full list, in which the excluded play keeps its place.          *)
C14_ExcludedPlayNeverReturned ==
    call.op = "match_play" /\ ~IsNone(result) =>
        /\ \A k \in ExcludedAt :
              Val(result).play_description # MatchedPlays[k].play_text
        /\ \E w \in Candidates :
              /\ Val(result).play_description = MatchedPlays[w].play_text
              /\ Val(result).down = MatchedPlays[w].down
              /\ Val(result).match_confidence = ScoreAt(w, w - 1)
        /\ \A i \in Candidates :
              AtLeast(Val(result).match_confidence, ScoreAt(i, i - 1))

(* a match in which an excluded play sits at the hinted index and would   *)
(* have scored more than the play returned                                *)
C14_Witness ==
    /\ call.op = "match_play" /\ ~IsNone(result)
    /\ ~IsNone(call.arg.play_sequence_hint)
    /\ \E k \in ExcludedAt :
          /\ k - 1 = Val(call.arg.play_sequence_hint)
          /\ FloatLess(Val(result).match_confidence, ScoreAt(k, k - 1))

(* The three parts of the score as the claim tabulates them, in tenths:   *)
(* F of the yard-line gap, S of the sequence distance, D of the down      *)
FieldPart(diff) ==
    CASE diff = 0 -> 6 [] diff \in 1..2 -> 5 [] diff \in 3..5 -> 3
      [] diff \in 6..10 -> 1 [] OTHER -> 0
SequencePart(dist) ==
    CASE dist = 0 -> 3 [] dist \in 1..2 -> 2 [] dist \in 3..5 -> 1 [] OTHER -> 0
DownPart(down) == IF down > 0 THEN 1 ELSE 0
YardlineGap(c) == Abs(110 - c.arg.bdb_yardline - c.arg.espn_yardline)

(* The score of the last call is F + S + D, and lies between 0.0 and 1.0 *)
ScoreIsTheSum ==
    call.op = "calculate_match_score" =>
        /\ result = FloatAdd(FloatAdd(Float(FieldPart(YardlineGap(call))),
                                      Float(SequencePart(call.arg.sequence_distance))),
                             Float(DownPart(call.arg.espn_down)))
        /\ AtLeast(result, Float(0))
        /\ AtLeast(Float(10), result)

(* Of two calls with the same sequence distance and the same down status, *)
(* the one with the larger yard-line gap does not score more              *)
ScoreFallsWithGap ==
    (/\ call.op = "calculate_match_score"
     /\ call'.op = "calculate_match_score"
     /\ call'.arg.sequence_distance = call.arg.sequence_distance
     /\ (call'.arg.espn_down > 0) = (call.arg.espn_down > 0)
     /\ YardlineGap(call') >= YardlineGap(call))
        => AtLeast(result, result')

(* C15: calculate_match_score(a, y, down, s) is F(|110 - a - y|) + S(s) + *)
(* D(down), the sum being formed in binary64; it lies in [0.0, 1.0]; and  *)
(* for fixed s and down it does not increase as the gap increases.        *)
C15_ScoreIsSumOfParts == []ScoreIsTheSum /\ [][ScoreFallsWithGap]_vars

(* a call in which all three parts are at their maximum *)
C15_Witness ==
    /\ call.op = "calculate_match_score"
    /\ YardlineGap(call) = 0
    /\ call.arg.sequence_distance = 0
    /\ call.arg.espn_down > 0
    /\ result = <<10, 0 - 1>>

(* The enriched play e has the source fields of the call's arguments p *)
SourceFieldsOf(e, p) ==
    /\ e.game_id = p.game_id /\ e.play_id = p.play_id
    /\ e.absolute_yardline = p.absolute_yardline
    /\ e.play_direction = p.play_direction
    /\ e.ball_land_x = p.ball_land_x /\ e.ball_land_y = p.ball_land_y
    /\ e.num_frames = p.num_frames

(* The enriched play e has the provider fields of the play espn_play *)
ProviderFieldsOf(e, espn_play) ==
    /\ e.quarter = espn_play.quarter /\ e.game_clock = espn_play.clock
    /\ e.down = espn_play.down /\ e.yards_to_go = espn_play.distance
    /\ e.play_description = espn_play.play_text
    /\ e.play_type = espn_play.play_type
    /\ e.scoring_play = espn_play.scoring_play
    /\ e.home_score = espn_play.home_score /\ e.away_score = espn_play.away_score

(* The enriched play e has the teams and the stadium of the mapping m *)
MappingFieldsOf(e, m) ==
    /\ e.home_team = m.home_team /\ e.away_team = m.away_team
    /\ e.stadium = m.stadium

(* C16: an enriched play carries the source fields of the call, the       *)
(* provider fields of one candidate of the play list of the game the      *)
(* source id is mapped to, the teams and stadium of that mapping, and as  *)
(* match_confidence that candidate's score, between 0.3 and 1.0.          *)
C16_EnrichedFromCallCandidateMapping ==
    call.op = "match_play" /\ ~IsNone(result) =>
        /\ SourceFieldsOf(Val(result), call.arg)
        /\ call.arg.game_id \in DOMAIN mappings
        /\ MappingFieldsOf(Val(result), mappings[call.arg.game_id])
        /\ mappings[call.arg.game_id].espn_game_id \in DOMAIN espn_plays_cache
        /\ \E w \in DOMAIN espn_plays_cache[mappings[call.arg.game_id].espn_game_id] :
              /\ ProviderFieldsOf(Val(result),
                     espn_plays_cache[mappings[call.arg.game_id].espn_game_id][w])
              /\ w \in Candidates
              /\ Val(result).match_confidence = CandidateScore(w)
        /\ AtLeast(Val(result).match_confidence, Float(3))
        /\ AtLeast(Float(10), Val(result).match_confidence)

(* an enriched play of the second game of a day, whose away team the     *)
(* provider lists first                                                   *)
C16_Witness ==
    /\ call.op = "match_play" /\ ~IsNone(result)
    /\ call.arg.game_id = IdA1
    /\ Val(result).home_team = "Washington Commanders"
    /\ Val(result).away_team = "Arizona Cardinals"
    /\ Val(result).stadium = "FedExField"
    /\ Val(result).play_description = "pass incomplete"

(* The position of the play at the hinted index, 0 when there is none *)
HintedAt ==
    IF call.op = "match_play" /\ ~IsNone(call.arg.play_sequence_hint)
         /\ Val(call.arg.play_sequence_hint) + 1 \in DOMAIN MatchedPlays
    THEN Val(call.arg.play_sequence_hint) + 1
    ELSE 0

(* C17: when the play at the hinted index has yard_line = 110 - absolute  *)
(* yard line and down > 0, it scores 1.0 and match_play returns it with   *)
(* match_confidence 1.0, whatever the other candidates are.               *)
C17_ExactHintedPlayScoresOne ==
    (/\ HintedAt # 0
     /\ MatchedPlays[HintedAt].yard_line = 110 - call.arg.absolute_yardline
     /\ MatchedPlays[HintedAt].down > 0)
        => /\ CandidateScore(HintedAt) = Float(10)
           /\ ~IsNone(result)
           /\ ProviderFieldsOf(Val(result), MatchedPlays[HintedAt])
           /\ Val(result).match_confidence = Float(10)

(* What holds instead: the play is returned, with confidence              *)
(* 0.9999999999999999                                                     *)
HintedPlayReturnedBelowOne ==
    (/\ HintedAt # 0
     /\ MatchedPlays[HintedAt].yard_line = 110 - call.arg.absolute_yardline
     /\ MatchedPlays[HintedAt].down > 0)
        => /\ ~IsNone(result)
           /\ ProviderFieldsOf(Val(result), MatchedPlays[HintedAt])
           /\ Val(result).match_confidence = <<10, 0 - 1>>

(* The schedule a get_mapping call of a memoizing client worked with: the *)
(* games of the memoized answer for the date of the id; none when the     *)
(* request failed                                                         *)
MapSchedule ==
    IF call.op = "get_mapping" /\ cache_enabled
         /\ ScoreboardUrl(parse_bdb_game_id(call.arg.bdb_game_id).date) \in DOMAIN cache
    THEN ScoreboardGames(
             Some(cache[ScoreboardUrl(parse_bdb_game_id(call.arg.bdb_game_id).date)]))
    ELSE <<>>

(* The normalized teams of the game are the normalized hints, in either   *)
(* orientation                                                            *)
NormalizedPair(home, away) == <<normalize_team(home), normalize_team(away)>>
HintsName(game, teams) ==
    \/ NormalizedPair(game.home_team_abbrev, game.away_team_abbrev)
         = NormalizedPair(teams[1], teams[2])
    \/ NormalizedPair(game.home_team_abbrev, game.away_team_abbrev)
         = NormalizedPair(teams[2], teams[1])
HintedGames ==
    IF call.op = "get_mapping" /\ ~IsNone(call.arg.teams)
    THEN {i \in DOMAIN MapSchedule : HintsName(MapSchedule[i], Val(call.arg.teams))}
    ELSE {}

FirstHintedGameSelected ==
    (call.op = "get_mapping" /\ ~call.known /\ HintedGames # {})
        => /\ ~IsNone(result)
           /\ Val(result).espn_game_id = MapSchedule[MinOf(HintedGames)].espn_id
           /\ Val(result).home_team = MapSchedule[MinOf(HintedGames)].home_team

(* Two calls in a row for unmapped ids of one date, the second with the   *)
(* hints of the first swapped, select the same game                       *)
SwappedHintsSelectSameGame ==
    (/\ call.op = "get_mapping" /\ ~call.known /\ HintedGames # {}
     /\ call'.op = "get_mapping" /\ ~call'.known
     /\ parse_bdb_game_id(call'.arg.bdb_game_id).date
          = parse_bdb_game_id(call.arg.bdb_game_id).date
     /\ ~IsNone(call'.arg.teams)
     /\ Val(call'.arg.teams) = <<Val(call.arg.teams)[2], Val(call.arg.teams)[1]>>)
        => /\ ~IsNone(result) /\ ~IsNone(result')
           /\ Val(result').espn_game_id = Val(result).espn_game_id

(* C19: on a miss with hints, get_mapping selects the first game in       *)
(* listing order whose normalized teams are the normalized hints in       *)
(* either orientation, also when the sequence number indexes another      *)
(* game; with the hints swapped it selects the same game.                 *)
C19_FirstHintedGame == []FirstHintedGameSelected /\ [][SwappedHintsSelectSameGame]_vars

(* the hints, given away team first, name the second and the third game   *)
(* of the day while the sequence number indexes the first: the second is  *)
(* selected                                                               *)
C19_Witness ==
    /\ call.op = "get_mapping" /\ ~call.known
    /\ call.arg.bdb_game_id = IdD0
    /\ call.arg.teams = Some(<<"DET", "Washington Commanders">>)
    /\ HintedGames = {2, 3}
    /\ ~IsNone(result) /\ Val(result).espn_game_id = "406"

(* C20: in batch matching no exception reaches the caller, and the call   *)
(* ends only when every play of the batch has been processed: a play that *)
(* fails is just absent from the results.                                 *)
C20_BatchSurvivesFailingPlay ==
    /\ batch.state # "raised"
    /\ batch.state = "returned" => batch.queue = <<>>

(* C21: get_scoreboard never raises to its caller; it returns a list.    *)
C21_ScoreboardNeverRaises ==
    call.op = "get_scoreboard" => RaisedBy(call) = ""

(* What holds of the events the loop does catch: an event with an empty   *)
(* competitions list is skipped and the others are returned               *)
MalformedEventSkipped ==
    (/\ call.op = "get_scoreboard" /\ RaisedBy(call) = "" /\ cache_enabled
     /\ ScoreboardUrl(call.arg) \in DOMAIN cache
     /\ "events" \in DOMAIN cache[ScoreboardUrl(call.arg)])
        => Len(result) = Cardinality({i \in DOMAIN cache[ScoreboardUrl(call.arg)].events :
                                        EventError(cache[ScoreboardUrl(call.arg)].events[i]) = ""})

(* C22: constructing a GameMapper over a cache file that cannot be read   *)
(* or parsed does not abort and leaves an empty mapping cache.            *)
Damaged(file) ==
    file.exists /\ (file.kind # "object" \/ \E id \in DOMAIN file.data :
                                                DOMAIN file.data[id] # GameMappingFields)

C22_DamagedFileLeavesEmptyCache ==
    (call.op = "init" /\ Damaged(store))
        => RaisedBy(call) = "" /\ DOMAIN mappings = {}

(* An entry with wrong fields after a good one: the good one stays loaded *)
C22_PartlyLoaded ==
    call.op = "init" /\ Damaged(store) /\ RaisedBy(call) = "" => DOMAIN mappings = {}

(* C23: absolute_to_espn_yardline(a) is 110 - a for every a in 0..120,    *)
(* converting the result again gives a back, and the call changes nothing *)
(* of the client, the mapper, the store or the matcher.                   *)
ConvertedAndBack ==
    call.op = "absolute_to_espn_yardline"
        => /\ call.arg \in 0..120
           /\ result + call.arg = 110
           /\ absolute_to_espn_yardline(result) = call.arg

ConversionTouchesNothing ==
    call'.op = "absolute_to_espn_yardline"
        => UNCHANGED <<now, cache, last_request_time, issued, mappings, store,
                       espn_plays_cache, game_info_cache>>

C23_YardlineConversion == []ConvertedAndBack /\ [][ConversionTouchesNothing]_vars

C23_Witness ==
    call.op = "absolute_to_espn_yardline" /\ call.arg = 120 /\ result = 0 - 10

(* C24: one SourcePlay is produced per distinct (game_id, play_id) of the *)
(* tracking rows, and every field of it is the value of the first row     *)
(* seen with that key.                                                    *)
PlaysOfKey(key) ==
    {i \in DOMAIN result : result[i].game_id = key[1] /\ result[i].play_id = key[2]}

FromFirstRow(play, row) ==
    /\ play.absolute_yardline = row.absolute_yardline_number
    /\ play.ball_land_x = row.ball_land_x

OnePlayPerKey ==
    /\ Len(result) = Cardinality(KeysOf(call.arg))
    /\ \A key \in KeysOf(call.arg) : Cardinality(PlaysOfKey(key)) = 1

C24_OnePlayPerKeyFromFirstRow ==
    (call.op \in {"extract_unique_plays", "load_unique_plays"} /\ RaisedBy(call) = "")
        => /\ OnePlayPerKey
           /\ \A key \in KeysOf(call.arg) : \A i \in PlaysOfKey(key) :
                  FromFirstRow(result[i],
                               call.arg[MinOf({j \in DOMAIN call.arg :
                                                 KeyOf(call.arg[j]) = key})])

(* What does hold: one play per key, from both loaders *)
C24_OnePlayPerKey ==
    (call.op \in {"extract_unique_plays", "load_unique_plays"} /\ RaisedBy(call) = "")
        => OnePlayPerKey

(* C25: on a miss with no hint match, the game at position               *)
(* sequence_number is selected only when 0 <= sequence_number < number of *)
(* games; otherwise the single game of the day is selected, or nothing.   *)
SequenceNumber == parse_bdb_game_id(call.arg.bdb_game_id).game_num

SelectedIs(i) ==
    ~IsNone(result) /\ Val(result).espn_game_id = MapSchedule[i].espn_id

C25_IndexedOnlyInRange ==
    (/\ call.op = "get_mapping" /\ ~call.known
     /\ Len(MapSchedule) > 0
     /\ HintedGames = {})
        => IF 0 <= SequenceNumber /\ SequenceNumber < Len(MapSchedule)
           THEN SelectedIs(SequenceNumber + 1)
           ELSE IF Len(MapSchedule) = 1 THEN SelectedIs(1)
           ELSE IsNone(result)

(* What holds: nothing is selected by a sequence number at or beyond the   *)
(* number of games                                                         *)
C25_NotIndexedBeyondTheEnd ==
    (/\ call.op = "get_mapping" /\ ~call.known
     /\ Len(MapSchedule) > 1
     /\ HintedGames = {}
     /\ SequenceNumber >= Len(MapSchedule))
        => IsNone(result)

(* C26: in batch mode each play is matched with a sequence hint equal to *)
(* its zero-based position among the input plays of the same game, in     *)
(* input order, not its position in the whole batch.                      *)
PositionInGame(plays, i) ==
    Cardinality({j \in 1..(i - 1) : plays[j].game_id = plays[i].game_id})

(* the call queues every input play once, with its position in its game  *)
QueuedWithPositionInGame ==
    call'.op \in {"match_plays_batch", "enrich_plays"}
        => /\ {batch'.queue[r].orig_idx + 1 : r \in DOMAIN batch'.queue} = DOMAIN call'.arg
           /\ \A r \in DOMAIN batch'.queue :
                /\ batch'.queue[r].play = call'.arg[batch'.queue[r].orig_idx + 1]
                /\ batch'.queue[r].seq_idx
                     = PositionInGame(call'.arg, batch'.queue[r].orig_idx + 1)

(* and match_play is called with what was queued *)
HintIsTheQueuedPosition ==
    (batch.state = "running" /\ batch'.state # "raised")
        => /\ call'.op = "match_play"
           /\ call'.arg.play_sequence_hint = Some(Head(batch.queue).seq_idx)
           /\ call'.arg.game_id = Head(batch.queue).play.game_id

C26_HintIsPositionInGame ==
    [][QueuedWithPositionInGame /\ HintIsTheQueuedPosition]_vars

(* What holds of match_plays_batch alone *)
C26_BatchHintIsPositionInGame ==
    [][(call'.op = "enrich_plays" \/ QueuedWithPositionInGame)
         /\ HintIsTheQueuedPosition]_vars

(* C27: get_plays returns the plays of the completed drives in provider  *)
(* order followed by the plays of the in-progress drive when present,     *)
(* each play in its drive's order and each drive's plays once per call.   *)
RECURSIVE PlaysOfDrives(_)
PlaysOfDrives(drives) ==
    IF Len(drives) = 0 THEN <<>>
    ELSE [i \in DOMAIN Head(drives).plays |-> ParsePlay(Head(drives).plays[i])]
             \o PlaysOfDrives(Tail(drives))

(* the play list of a summary as the provider sent it *)
ExpectedPlays(body) ==
    PlaysOfDrives(IF "current" \in DOMAIN body.drives
                  THEN body.drives.previous \o <<body.drives.current>>
                  ELSE body.drives.previous)

(* the bodies the provider may have sent for the summary now memoized *)
SentBodies(espn_game_id) ==
    {b \in SummaryBodies(espn_game_id) :
        SummaryUrl(espn_game_id) \in DOMAIN cache
            => ("current" \in DOMAIN b.drives
                  <=> "current" \in DOMAIN cache[SummaryUrl(espn_game_id)].drives)}

C27_DrivesFlattenedOnce ==
    call.op = "get_plays"
        => \/ result \in {ExpectedPlays(b) : b \in SentBodies(call.arg)}
           \/ SummaryUrl(call.arg) \notin DOMAIN cache /\ Len(result) = 0

(* What holds: a call that fetches the summary returns each drive once *)
C27_FetchingCallFlattensOnce ==
    (call.op = "get_plays" /\ call.sent > 0)
        => \/ result \in {ExpectedPlays(b) : b \in SentBodies(call.arg)}
           \/ SummaryUrl(call.arg) \notin DOMAIN cache /\ Len(result) = 0

(* C29: with caching enabled, get_plays called again for the same game     *)
(* returns an equal play sequence, and get_plays never modifies the        *)
(* memoized summary response.                                              *)
SamePlaysAgain ==
    (/\ cache_enabled
     /\ call.op = "get_plays" /\ call'.op = "get_plays" /\ call'.arg = call.arg
     /\ call'.sent = 0)
        => result' = result

MemoizedSummaryKept ==
    \A id \in EspnIds :
        (call'.op = "get_plays" /\ SummaryUrl(id) \in DOMAIN cache)
            => /\ SummaryUrl(id) \in DOMAIN cache'
               /\ cache'[SummaryUrl(id)] = cache[SummaryUrl(id)]

C29_RepeatableAndMemoUntouched == [][SamePlaysAgain /\ MemoizedSummaryKept]_vars

(* What holds when no drive is in progress *)
C29_FinishedGameRepeatable ==
    [][(\A id \in EspnIds :
           SummaryUrl(id) \in DOMAIN cache
               => "current" \notin DOMAIN cache[SummaryUrl(id)].drives)
         => SamePlaysAgain /\ MemoizedSummaryKept]_vars

(* C28: when the mapper returns nothing for the play's game, match_play   *)
(* returns no match, issues no summary request and adds nothing to the    *)
(* matcher's play cache and game-info cache.                              *)
UnmappedPlayTouchesNothing ==
    (call'.op = "match_play" /\ IsNone(call'.mapping))
        => /\ IsNone(result')
           /\ espn_plays_cache' = espn_plays_cache
           /\ game_info_cache' = game_info_cache
           /\ \A i \in (Len(issued) + 1)..Len(issued') : issued'[i].url[1] # "summary"

C28_UnmappedPlayTouchesNothing == [][UnmappedPlayTouchesNothing]_vars

(* the schedule was fetched and names no game for the id: no match, and    *)
(* the schedule request is the only one made                               *)
C28_Witness ==
    /\ call.op = "match_play" /\ IsNone(call.mapping) /\ IsNone(result)
    /\ call.arg.game_id = IdB5
    /\ call.sent = 1 /\ issued[Len(issued)].ok
    /\ issued[Len(issued)].url = ScoreboardUrl(DateB)

(* C30: every mapping in the cache file when the process starts is still *)
(* there, unchanged, after any sequence of get_mapping calls: no          *)
(* get_mapping call drops or changes an entry the file held before it.    *)
EntriesKept ==
    \A id \in DOMAIN store.data :
        DOMAIN store.data[id] = GameMappingFields
            => id \in DOMAIN store'.data /\ store'.data[id] = store.data[id]

C30_PersistedEntriesKept == [][call'.op = "get_mapping" => EntriesKept]_vars

(* What holds: the entries are kept by every call made after a load that   *)
(* took all of them, unless the write itself is cut short                  *)
C30_KeptWhenLoadedAndWritten ==
    [][(/\ call'.op = "get_mapping"
        /\ DOMAIN mappings = DOMAIN store.data
        /\ call'.io # "cut")
          => EntriesKept]_vars

====
